---- MODULE Spec2Model ----
(***************************************************************************)
(* Model of sticker-convert's conversion core                              *)
(* (src/src/sticker_convert/converter.py): the step ladder                 *)
(* (get_step_value / generate_steps_list), the compatibility gate          *)
(* (check_if_compatible) and the bisection search of                       *)
(* StickerConvert._convert with its two exits compress_done and            *)
(* compress_fail.                                                          *)
(*                                                                         *)
(* Conventions                                                             *)
(*  - Python's None is the integer None (-1); every other integer of the   *)
(*    model is >= 0.                                                       *)
(*  - A bytes object is a record [kind, step, len]: kind "none" is Python's *)
(*    None, "input" the bytes of the input file, "enc" the bytes the        *)
(*    encoder wrote for ladder index `step`; len is its length.             *)
(*  - The encoders (frames_export) are external libraries: the size of the *)
(*    output of one encode pass is drawn from Sizes.  Encoding is a         *)
(*    function of the ladder row, so a ladder index that is encoded twice   *)
(*    in one conversion yields the same size both times.                    *)
(*  - FormatVerify (utils/media/format_verify.py) is not part of the        *)
(*    sources at hand: the outcome of each of its five checks is an input   *)
(*    (the record compat).                                                  *)
(***************************************************************************)
EXTENDS Integers, Sequences, FiniteSets, TLC

VARIABLES
    opt_comp,       \* self.opt_comp: the compression options
    is_animated,    \* self.codec_info_orig.is_animated
    compat,         \* outcome of the five FormatVerify checks on the input
    in_len,         \* length in bytes of the input file
    out_stem,       \* self.out_f.stem: "none", "bytes" or a file name
    pc,             \* position in convert(): start, setup, import, loop, done, raised
    steps_list,     \* local steps_list of _convert
    step_lower,     \* local step_lower
    step_upper,     \* local step_upper
    step_current,   \* local step_current
    size_max,       \* self.size_max
    param,          \* the ladder row of the running iteration (res_w, res_h, quality, fps, color)
    size,           \* self.size
    result,         \* self.result
    result_size,    \* self.result_size
    result_step,    \* self.result_step
    ret,            \* the tuple convert() returned
    written,        \* the bytes written to self.out_f
    cb,             \* the items put on the callback queue, oldest first
    probes,         \* history: <<step, size>> of every encode pass, oldest first
    n_import,       \* history: number of frames_import calls
    codec,          \* self.codec_info_orig: [fps, duration (ms), frames the decoder yields]
    out_suffix,     \* self.out_f.suffix
    frames_raw,     \* self.frames_raw: the decoded frames, each its index in the source
    frames_processed, \* self.frames_processed
    fps,            \* self.fps: NoFraction or the fraction <<numerator, denominator>>
    drops,          \* history: what frames_drop returned in every encode pass
    sums,           \* history: the rounds of every pass whose accumulator lay under a half
    results_queue,  \* Executor.results_queue: what the worker put, oldest first
    compress_ret,   \* what Job.compress returned: "unset", "True" or "False"
    tasks,          \* history: the work items add_work appended, in order
    work_list,      \* Executor.work_list: work items and end markers
    workers,        \* the worker processes: [pc, work, why] of each
    jpc,            \* where the coordinator is: "idle", "started", "joining", "joined", "returned"
    apngasm,        \* self.apngasm: [made, frames], the frames the assembler holds
    assembled,      \* history: the frames of the latest animated-PNG assembly
    scratch,        \* history: [made, removed], scratch directories created and removed
    exc,            \* the exception that ended the conversion, "none" if none did
    quant,          \* the quantizer: [tried, out], the caps attempted and what was returned
    cb_queue,       \* Executor.cb_queue: the items put and not yet taken, oldest first
    cb_calls,       \* history: the calls the callback thread made, oldest first
    cb_alive,       \* whether the callback thread is still in its loop
    cleanup,        \* Executor.cleanup: [n, pc], calls begun and where the latest is
    processes,      \* Executor.processes: the workers start_workers appended
    results_end,    \* None, or the number of results put before the None that closes results_queue
    start,          \* Job.start: [pc, i, ran, code], its position, task index, tasks run, return code
    is_cancel_job,  \* Executor.is_cancel_job.value
    resized,        \* history: [frame, canvas, scaled, offset] of the latest frames_resize
    flow            \* Flow.compress: [pc, processes, files, threads, joined, fails, steps, bar]

vars == <<opt_comp, is_animated, compat, in_len, out_stem, pc, steps_list,
          step_lower, step_upper, step_current, size_max, param, size, result,
          result_size, result_step, ret, written, cb, probes, n_import,
          codec, out_suffix, frames_raw, frames_processed, fps, drops, sums,
          results_queue, compress_ret, tasks, work_list, workers, jpc,
          apngasm, assembled, scratch, exc, quant,
          cb_queue, cb_calls, cb_alive, cleanup, processes, results_end,
          start, is_cancel_job, resized, flow>>

\* the state of the export path
exportVars == <<apngasm, assembled, scratch, exc>>

\* the state of the task layer
jobVars == <<results_queue, compress_ret>>

\* the work list and the processes of the Executor
joinVars == <<processes, results_end>>

execVars == <<tasks, work_list, workers, jpc, joinVars>>

\* the callback thread and Executor.cleanup
cbVars == <<cb_queue, cb_calls, cb_alive, cleanup>>

\* state no step of a conversion touches
\* Job.start and the cancel flag
startVars == <<start, is_cancel_job>>

\* the frame resize record and the thread pool of Flow.compress
poolVars == <<resized, flow>>

sideVars == <<execVars, quant, cbVars, startVars, poolVars>>

\* the input file and the output name: never assigned after construction
fileVars == <<codec, out_suffix>>

frameVars == <<frames_raw, frames_processed, fps, drops, sums>>

searchVars == <<step_lower, step_upper, step_current, size_max, param, size,
                result, result_size, result_step, probes>>

\* ------------------------------------------------------------------ bounds

MaxSteps == 10          \* opt_comp.steps ranges over 1..MaxSteps
LadderMaxSteps == 3     \* opt_comp.steps of the ladder specification
MaxPower == 2           \* the shaping exponents range over 0..MaxPower
FramesMaxSteps == 2     \* opt_comp.steps of the frames specification
MaxFrames == 4          \* the decoder yields 1..MaxFrames frames
ExportMaxSteps == 2     \* opt_comp.steps of the export specification
MaxItems == 2           \* add_work is called 0..MaxItems times
MaxPuts == 2            \* items the producers put on the callback queue
MaxFiles == 3           \* Flow.compress finds 0..MaxFiles files to compress

\* ------------------------------------------------------------ Python values

None == -1

IsNone(x) == x = None

\* Python truth value of an Optional[int]: None and 0 are false
Truthy(x) == x # None /\ x # 0

NoBytes == [kind |-> "none", step |-> None, len |-> 0]

InputBytes == [kind |-> "input", step |-> None, len |-> in_len]

EncBytes(step, n) == [kind |-> "enc", step |-> step, len |-> n]

\* Python truth value of an Optional[bytes]: None and b"" are false
BytesTruthy(b) == b.kind # "none" /\ b.len > 0

\* ---------------------------------------------------------------- rounding

RECURSIVE Pow(_, _)
Pow(b, e) == IF e = 0 THEN 1 ELSE b * Pow(b, e - 1)

\* rounding(num / den): Decimal.quantize(0, ROUND_HALF_UP), num >= 0, den > 0
RoundHalfUp(num, den) == (2 * num + den) \div (2 * den)

\* Python's built-in round(num / den): ties go to the even integer, den > 0
RoundHalfEven(num, den) ==
    LET q == num \div den
        r == num % den
    IN  IF 2 * r < den THEN q
        ELSE IF 2 * r > den THEN q + 1
        ELSE IF q % 2 = 0 THEN q ELSE q + 1

\* ------------------------------------------------------------- step ladder

\* factor of get_step_value as the fraction <<numerator, denominator>>:
\* pow(step / steps, power) when step > 0, else 0
StepFactor(step, steps, power) ==
    IF step > 0 THEN <<Pow(step, power), Pow(steps, power)>> ELSE <<0, 1>>

\* get_step_value: round((max - min) * step / steps * factor + min), an odd
\* result raised by one when even is set; None when a bound is missing
get_step_value(max, min, step, steps, power, even) ==
    LET f == StepFactor(step, steps, power)
        den == steps * f[2]
        num == (max - min) * step * f[1] + min * den
        v == RoundHalfEven(num, den)
    IN  IF ~IsNone(max) /\ ~IsNone(min)
        THEN IF even /\ v % 2 = 1 THEN v + 1 ELSE v
        ELSE None

\* mutant of StepRow: the width computed without the even flag
StepRowWidthNotEven(o, step) ==
    << get_step_value(o.res_w_max, o.res_w_min, step, o.steps, o.res_power, FALSE),
       get_step_value(o.res_h_max, o.res_h_min, step, o.steps, o.res_power, TRUE),
       get_step_value(o.quality_max, o.quality_min, step, o.steps, o.quality_power, FALSE),
       get_step_value(o.fps_max, o.fps_min, step, o.steps, o.fps_power, FALSE),
       get_step_value(o.color_max, o.color_min, step, o.steps, o.color_power, FALSE) >>

\* one row of the ladder, for `step` counted down from steps to 0
StepRow(o, step) ==
    << get_step_value(o.res_w_max, o.res_w_min, step, o.steps, o.res_power, TRUE),
       get_step_value(o.res_h_max, o.res_h_min, step, o.steps, o.res_power, TRUE),
       get_step_value(o.quality_max, o.quality_min, step, o.steps, o.quality_power, FALSE),
       get_step_value(o.fps_max, o.fps_min, step, o.steps, o.fps_power, FALSE),
       get_step_value(o.color_max, o.color_min, step, o.steps, o.color_power, FALSE) >>

\* mutant of generate_steps_list: the rows in ascending order of step
generate_steps_list_ascending(o) == [i \in 1..(o.steps + 1) |-> StepRow(o, i - 1)]

\* generate_steps_list: for step in range(steps, -1, -1): append the row.
\* Python's steps_list[i] is steps_list[i + 1] here.
generate_steps_list(o) == [i \in 1..(o.steps + 1) |-> StepRow(o, o.steps + 1 - i)]

\* steps_list[i] of the Python list
Row(list, i) == list[i + 1]

\* ---------------------------------------------------------------- fractions
\* A Fraction is <<numerator, denominator>> in lowest terms, denominator > 0.
\* Floats of the code (codec fps, ratios) are exact fractions here; the frame
\* accumulator of frames_drop is a double whose rounding error is modelled at
\* the points where it can change the selected frame (see frames_drop).

RECURSIVE Gcd(_, _)
Gcd(a, b) == IF b = 0 THEN a ELSE Gcd(b, a % b)

\* Fraction(num, den), num >= 0, den > 0
Fraction(num, den) ==
    LET g == Gcd(num, den) IN <<num \div g, den \div g>>

\* the None of an Optional[Fraction]
NoFraction == << >>

\* Python truth value of an Optional[Fraction]: None and 0 are false
FracTruthy(f) == f # NoFraction /\ f[1] # 0

FracLess(a, b) == a[1] * b[2] < b[1] * a[2]

\* math.ceil(num / den) and math.floor(num / den), num >= 0, den > 0
Ceil(num, den) == (num + den - 1) \div den

Floor(num, den) == num \div den

\* ------------------------------------------------------------------- fix_fps

\* the rounded delay of _fix_fps_duration, int(rounding(denominator / fps))
FixFpsDelay(f, denominator) == RoundHalfUp(denominator * f[2], f[1])

\* _fix_fps_duration without its adjustment to fps_max and fps_min
fix_fps_durationNoLimits(f, denominator, o) ==
    Fraction(denominator, FixFpsDelay(f, denominator))

\* _fix_fps_duration(fps, denominator) for fps = f[1] / f[2] > 0: the delay
\* int(rounding(denominator / fps)) must be >= 1 (and >= 2 where it is lowered)
fix_fps_duration(f, denominator, o) ==
    LET delay == RoundHalfUp(denominator * f[2], f[1])
        fps_fraction == Fraction(denominator, delay)
    IN  IF Truthy(o.fps_max) /\ FracLess(<<o.fps_max, 1>>, fps_fraction)
        THEN Fraction(denominator, delay + 1)
        ELSE IF Truthy(o.fps_min) /\ FracLess(fps_fraction, <<o.fps_min, 1>>)
        THEN Fraction(denominator, delay - 1)
        ELSE fps_fraction

\* _fix_fps_pyav: Fraction(rounding(fps))
fix_fps_pyav(f) == <<RoundHalfUp(f[1], f[2]), 1>>

\* fix_fps: by the suffix of the output file
fix_fps(f, suffix, o) ==
    IF suffix = ".gif" THEN fix_fps_duration(f, 100, o)
    ELSE IF suffix \in {".webp", ".apng", ".png"} THEN fix_fps_duration(f, 1000, o)
    ELSE fix_fps_pyav(f)

\* the time base of the output container: delays per second, 0 where
\* _fix_fps_pyav applies
FixFpsDenominator(suffix) ==
    IF suffix = ".gif" THEN 100
    ELSE IF suffix \in {".webp", ".apng", ".png"} THEN 1000
    ELSE 0

\* the delay _fix_fps_duration divides by on the branch it returns from
FixFpsFinalDelay(f, denominator, o) ==
    LET delay == FixFpsDelay(f, denominator)
    IN  IF delay = 0 THEN 0
        ELSE IF Truthy(o.fps_max) /\ delay * o.fps_max < denominator THEN delay + 1
        ELSE IF Truthy(o.fps_min) /\ denominator < delay * o.fps_min THEN delay - 1
        ELSE delay

\* Fraction(denominator, 0) raises ZeroDivisionError
FixFpsRaises(f, suffix, o) ==
    /\ FixFpsDenominator(suffix) # 0
    /\ FixFpsFinalDelay(f, FixFpsDenominator(suffix), o) = 0

\* lines 200-204 of _convert: self.fps for the ladder row
IterationFps(row, c, suffix, o) ==
    IF Truthy(row[4]) /\ Truthy(c.fps)
    THEN fix_fps(<<IF row[4] < c.fps THEN row[4] ELSE c.fps, 1>>, suffix, o)
    ELSE <<0, 1>>

\* --------------------------------------------------------------- frames_drop

\* speed_ratio of frames_drop as a fraction
SpeedRatio(c, o) ==
    IF Truthy(o.duration_min) /\ c.duration < o.duration_min
    THEN <<c.duration, o.duration_min>>
    ELSE IF Truthy(o.duration_max) /\ c.duration > o.duration_max
    THEN <<c.duration, o.duration_max>>
    ELSE <<1, 1>>

\* frame_increment = fps_ratio * speed_ratio, fps_ratio = codec fps / self.fps
FrameIncrement(f, c, o) ==
    <<c.fps * f[2] * SpeedRatio(c, o)[1], f[1] * SpeedRatio(c, o)[2]>>

\* mutant of FramesOutMin: the count rounded down instead of up
FramesOutMinFloor(f, o) ==
    IF Truthy(o.duration_min) THEN Floor(f[1] * o.duration_min, f[2] * 1000) ELSE None

\* frames_out_min: ceil(self.fps * duration_min / 1000), None without duration_min
FramesOutMin(f, o) ==
    IF Truthy(o.duration_min) THEN Ceil(f[1] * o.duration_min, f[2] * 1000) ELSE None

\* frames_out_max: floor(self.fps * duration_max / 1000), None without duration_max
FramesOutMax(f, o) ==
    IF Truthy(o.duration_max) THEN Floor(f[1] * o.duration_max, f[2] * 1000) ELSE None

\* mutant of PadFrame: the last frame already in the output, where there is one
PadFrameLastSelected(frames_in, out) ==
    IF Len(out) > 0 THEN out[Len(out)] ELSE frames_in[Len(frames_in)]

\* the frame the padding loop of frames_drop appends: frames_in[-1]
PadFrame(frames_in, out) == frames_in[Len(frames_in)]

RECURSIVE DropPad(_, _, _)
\* lines 617-621: pad until the output is non-empty and has frames_out_min frames
DropPad(frames_in, fmin, out) ==
    IF Len(out) = 0 \/ (Truthy(fmin) /\ Len(out) < fmin)
    THEN DropPad(frames_in, fmin, Append(out, PadFrame(frames_in, out)))
    ELSE out

\* a fraction a double holds exactly: its reduced denominator is a power of two
Representable(q) ==
    LET d == q[2] \div Gcd(q[1], q[2]) IN \E e \in 0..20 : d = 2 ^ e

\* lines 583-598: float(self.fps), fps_ratio, speed_ratio and hence every sum
\* of frame_increment are computed without rounding error
AccumulatorExact(f, c, o) ==
    /\ Representable(f)
    /\ Representable(<<c.fps * f[2], f[1]>>)
    /\ Representable(SpeedRatio(c, o))

\* the rounds of the selection loop in which k * frame_increment is exactly
\* half way between two indices of a source of n frames
TieRounds(n, inc) ==
    IF inc[1] = 0 THEN {}
    ELSE {k \in 1..((n * inc[2]) \div inc[1] + 1) :
             (2 * k * inc[1]) % (2 * inc[2]) = inc[2]}

\* lines 610-611: the source index the k-th round of the loop selects. The
\* accumulator is the double sum of k copies of frame_increment; its rounding
\* error is far smaller than the distance of k * frame_increment to the next
\* half, so it changes int(rounding(...)) only in the rounds where
\* k * frame_increment is exactly a half: in the rounds of below the sum lies
\* under the half and is rounded down
FrameCurrent(k, inc, below) ==
    IF k \in below THEN Floor(k * inc[1], inc[2]) ELSE RoundHalfUp(k * inc[1], inc[2])

RECURSIVE DropLoop(_, _, _, _, _, _, _)
\* lines 609-621: the k-th round of the selection loop
DropLoop(frames_in, inc, fmin, fmax, k, out, below) ==
    IF FrameCurrent(k, inc, below) <= Len(frames_in) - 1
           /\ ~(Truthy(fmax) /\ Len(out) = fmax)
    THEN DropLoop(frames_in, inc, fmin, fmax, k + 1,
                  Append(out, frames_in[FrameCurrent(k, inc, below) + 1]), below)
    ELSE DropPad(frames_in, fmin, out)

\* mutant of DropShortcut: the test for a static source left out
DropShortcutNoStatic(anim, f, processed) ==
    ~FracTruthy(f) \/ Len(processed) = 1

\* lines 572-576: frames_drop returns the first frame alone
DropShortcut(anim, f, processed) ==
    ~anim \/ ~FracTruthy(f) \/ Len(processed) = 1

\* the sets of rounds in which the accumulator of one call of frames_drop can
\* lie under a half: none where the sums are exact, otherwise the rounding
\* errors of the doubles decide, which this model leaves open
Accumulators(frames_in, anim, f, processed, c, o) ==
    IF DropShortcut(anim, f, processed) \/ AccumulatorExact(f, c, o)
    THEN {{}}
    ELSE SUBSET TieRounds(Len(frames_in), FrameIncrement(f, c, o))

\* frames_drop(frames_in) with self.fps = f and self.frames_processed = processed
frames_drop(frames_in, anim, f, processed, c, o, below) ==
    IF DropShortcut(anim, f, processed)
    THEN <<frames_in[1]>>
    ELSE DropLoop(frames_in, FrameIncrement(f, c, o), FramesOutMin(f, o),
                  FramesOutMax(f, o), 1, << >>, below)

\* frames_resize: one output frame per input frame, in order; a frame stays
\* identified by its index in the source
frames_resize(frames_in) == frames_in

\* ------------------------------------------------------------- frames_export

\* self.apngasm = None
NoAsm == [made |-> FALSE, frames |-> << >>]

\* the local is_animated of frames_export
ExportAnimated(frames, f) == Len(frames) > 1 /\ FracTruthy(f)

\* the encoder frames_export dispatches to
ExportPath(frames, f, suffix) ==
    IF suffix \in {".apng", ".png"}
    THEN IF ExportAnimated(frames, f) THEN "apng" ELSE "png"
    ELSE IF suffix = ".webp" /\ ExportAnimated(frames, f) THEN "webp"
    ELSE IF suffix \in {".webm", ".mp4", ".mkv"} \/ ExportAnimated(frames, f) THEN "pyav"
    ELSE "pil"

\* the branch quantize takes for the colour count of the row
QuantizeBranch(row, o) ==
    IF ~(Truthy(row[5]) /\ row[5] <= 256) THEN "copy"
    ELSE IF o.quantize_method = "imagequant" THEN "imagequant"
    ELSE IF o.quantize_method = "fastoctree" THEN "fastoctree"
    ELSE "none"

\* what quantize raises: the assertions of _quantize_by_imagequant on
\* self.quality, quality_min and quality_max, then the division by
\* quality_max - quality_min
QuantizeFailure(row, o) ==
    IF QuantizeBranch(row, o) # "imagequant" THEN "none"
    ELSE IF ~Truthy(row[3]) \/ ~Truthy(o.quality_min) \/ ~Truthy(o.quality_max)
    THEN "AssertionError"
    ELSE IF o.quality_max = o.quality_min THEN "ZeroDivisionError"
    ELSE "none"

\* self.res_h in _frames_export_apng: frames_resize replaced None by the
\* (positive) height of the frame
AssertResH(row) == IsNone(row[2]) \/ Truthy(row[2])

\* CacheStore.get_cache_store: a configured path gives debug_cache_dir(path);
\* without one Path(tempfile.TemporaryDirectory()) raises TypeError
StoreFailure(o) == IF o.cache_dir # "None" THEN "none" ELSE "TypeError"

\* faults of the assembler library during an animated-PNG export
ApngFaults == {"none", "add_frame", "assemble"}

\* the exception frames_export ends with, "none" if it returns; fault is what
\* the assembler library does
ExportFailure(row, frames, f, suffix, o, fault) ==
    LET path == ExportPath(frames, f, suffix) IN
    IF path = "png" THEN QuantizeFailure(row, o)
    ELSE IF path = "apng"
    THEN IF ~AssertResH(row) THEN "AssertionError"
         ELSE IF QuantizeFailure(row, o) # "none" THEN QuantizeFailure(row, o)
         ELSE IF fault = "add_frame" THEN "RuntimeError"
         ELSE IF StoreFailure(o) # "none" THEN StoreFailure(o)
         ELSE IF fault = "assemble" THEN "RuntimeError"
         ELSE "none"
    ELSE "none"

\* the export reached the with statement of line 748
StoreReached(row, frames, f, suffix, o, fault) ==
    /\ ExportPath(frames, f, suffix) = "apng"
    /\ AssertResH(row)
    /\ QuantizeFailure(row, o) = "none"
    /\ fault # "add_frame"

\* the frames the assembler holds when frames_export is left: line 755 resets
\* it, and only that line does
AsmAfter(asm, row, frames, f, suffix, o, fault) ==
    IF ExportPath(frames, f, suffix) # "apng" \/ ~AssertResH(row)
           \/ QuantizeFailure(row, o) # "none"
    THEN asm
    ELSE IF fault = "add_frame"
    THEN [made |-> TRUE, frames |-> asm.frames \o SubSeq(frames, 1, Len(frames) - 1)]
    ELSE IF ExportFailure(row, frames, f, suffix, o, fault) # "none"
    THEN [made |-> TRUE, frames |-> asm.frames \o frames]
    ELSE [made |-> TRUE, frames |-> << >>]

\* the frames handed to assemble, if the export got that far
AssembledAfter(old, asm, row, frames, f, suffix, o, fault) ==
    IF StoreReached(row, frames, f, suffix, o, fault) /\ StoreFailure(o) = "none"
    THEN asm.frames \o frames
    ELSE old

\* scratch directories: debug_cache_dir removes its directory in a finally
\* clause; the TemporaryDirectory of the default case is created, never entered
\* and removed by its finalizer when the TypeError drops it
ScratchAfter(sc, row, frames, f, suffix, o, fault) ==
    IF StoreReached(row, frames, f, suffix, o, fault)
    THEN [made |-> sc.made + 1, removed |-> sc.removed + 1]
    ELSE sc

\* ------------------------------------------------------------------ inputs

\* size_max_img / size_max_vid: unset, 0, and two budgets in bytes
Budgets == {None, 0, 300000, 500000}

\* sizes in bytes an encode pass can produce
Sizes == {300000, 500000, 600000}

\* lengths in bytes of the input file
InLens == {200000}

OutStems == {"none", "bytes", "sticker"}

CompatChecks == {"format", "res", "fps", "size", "duration"}

\* what FormatVerify's five checks can answer for an input: any combination
CompatOutcomes == [CompatChecks -> BOOLEAN]

\* the outcomes the search specification starts from: every check passes,
\* exactly one fails, or all fail
CompatCases ==
    {f \in CompatOutcomes : Cardinality({c \in CompatChecks : ~f[c]}) \in {0, 1, 5}}

\* the resolution, quality, fps and color bounds of the search specification
DefaultDims ==
    [res_w_max |-> 512, res_w_min |-> 256, res_h_max |-> 512, res_h_min |-> 256,
     quality_max |-> 95, quality_min |-> 25, fps_max |-> 30, fps_min |-> 5,
     color_max |-> 256, color_min |-> 8,
     res_power |-> 1, quality_power |-> 1, fps_power |-> 1, color_power |-> 1,
     duration_min |-> None, duration_max |-> None,
     quantize_method |-> "imagequant", cache_dir |-> "None"]

OptComp(steps, img, vid, dims) ==
    [steps |-> steps, size_max_img |-> img, size_max_vid |-> vid,
     res_w_max |-> dims.res_w_max, res_w_min |-> dims.res_w_min,
     res_h_max |-> dims.res_h_max, res_h_min |-> dims.res_h_min,
     quality_max |-> dims.quality_max, quality_min |-> dims.quality_min,
     fps_max |-> dims.fps_max, fps_min |-> dims.fps_min,
     color_max |-> dims.color_max, color_min |-> dims.color_min,
     res_power |-> dims.res_power, quality_power |-> dims.quality_power,
     fps_power |-> dims.fps_power, color_power |-> dims.color_power,
     duration_min |-> dims.duration_min, duration_max |-> dims.duration_max,
     quantize_method |-> dims.quantize_method, cache_dir |-> dims.cache_dir]

NoRet == [success |-> FALSE, out |-> "unset", data |-> NoBytes, size |-> None]

\* StickerConvert.__init__: the fields every conversion starts with
Constructed ==
    /\ pc = "start"
    /\ steps_list = << >>
    /\ step_lower = 0
    /\ step_upper = 0
    /\ step_current = 0
    /\ size_max = None
    /\ param = << >>
    /\ size = 0
    /\ result = NoBytes
    /\ result_size = 0
    /\ result_step = None
    /\ ret = NoRet
    /\ written = NoBytes
    /\ cb = << >>
    /\ probes = << >>
    /\ n_import = 0
    /\ frames_raw = << >>
    /\ frames_processed = << >>
    /\ fps = NoFraction
    /\ drops = << >>
    /\ sums = << >>
    /\ apngasm = NoAsm
    /\ assembled = << >>
    /\ scratch = [made |-> 0, removed |-> 0]
    /\ exc = "none"

\* no quantizer call made
NoQuant == [tried |-> << >>, out |-> "unset"]

\* Executor.__init__: nothing queued, Job.compress not returned yet
\* no frame resized yet
NoResize == [frame |-> << >>, canvas |-> << >>, scaled |-> << >>, offset |-> << >>]

\* Flow.compress not called
NoFlow ==
    [pc |-> "idle", processes |-> 0, files |-> 0, threads |-> << >>, joined |-> 0,
     fails |-> << >>, steps |-> None, bar |-> 0]

\* Executor.__init__, lines 60-73: an empty callback queue, its thread started
CallbackInit ==
    /\ resized = NoResize
    /\ flow = NoFlow
    /\ start = [pc |-> "idle", i |-> 1, ran |-> << >>, code |-> 0]
    /\ is_cancel_job = 0
    /\ cb_queue = << >>
    /\ cb_calls = << >>
    /\ cb_alive = TRUE
    /\ cleanup = [n |-> 0, pc |-> "idle"]

ExecutorInit ==
    /\ CallbackInit
    /\ results_queue = << >>
    /\ compress_ret = "unset"
    /\ tasks = << >>
    /\ work_list = << >>
    /\ workers = << >>
    /\ processes = << >>
    /\ results_end = None
    /\ jpc = "idle"
    /\ quant = NoQuant

\* codec_info_orig of a still image, and of a three-frame animation at 30 fps
StillCodec == [fps |-> 0, duration |-> 0, frames |-> 1]

AnimCodec == [fps |-> 30, duration |-> 100, frames |-> 3]

Init ==
    /\ opt_comp \in {OptComp(n, i, v, DefaultDims) :
                        n \in 1..MaxSteps, i \in Budgets, v \in Budgets}
    /\ is_animated \in BOOLEAN
    /\ codec = (IF is_animated THEN AnimCodec ELSE StillCodec)
    /\ out_suffix = ".webp"
    /\ compat \in CompatCases
    /\ in_len \in InLens
    /\ out_stem \in OutStems
    /\ Constructed
    /\ ExecutorInit

\* --------------------------------------------------------------- exits

\* compress_done(data, result_step): the returned out_f and the file write
DoneOut == IF out_stem = "none" THEN "None"
           ELSE IF out_stem = "bytes" THEN "data" ELSE "path"

\* the tuple compress_done returns, given the value self.result_size has then
DoneRet(data, rsize) ==
    [success |-> TRUE, out |-> DoneOut,
     data |-> IF out_stem = "bytes" THEN data ELSE NoBytes, size |-> rsize]

DoneWritten(data) == IF out_stem \notin {"none", "bytes"} THEN data ELSE written

\* mutant of DoneMsgs: a question instead of the status message
DoneMsgsAsk(rstep) == IF Truthy(rstep) THEN <<"ask_bool">> ELSE << >>

\* the messages compress_done puts: MSG_DONE_COMP only for a truthy result_step
DoneMsgs(rstep) == IF Truthy(rstep) THEN <<"DONE_COMP">> ELSE << >>

\* the tuple compress_fail returns: the size of the last encode pass
FailRet(lastsize) ==
    [success |-> FALSE, out |-> "path", data |-> NoBytes, size |-> lastsize]

\* ---------------------------------------------------- compatibility gate

\* mutant of AllCompatible: the duration check left out of the conjunction
AllCompatibleNoDuration == \A c \in CompatChecks \ {"duration"} : compat[c]

\* the conjunction of check_if_compatible
AllCompatible == \A c \in CompatChecks : compat[c]

\* check_if_compatible hit, then compress_done(result) and convert's update_bar
GateHit ==
    /\ pc = "start"
    /\ AllCompatible
    /\ BytesTruthy(InputBytes)
    /\ result_size' = in_len
    /\ ret' = DoneRet(InputBytes, in_len)
    /\ written' = DoneWritten(InputBytes)
    /\ cb' = cb \o <<"SKIP_COMP">> \o DoneMsgs(None) \o <<"update_bar">>
    /\ pc' = "done"
    /\ UNCHANGED <<opt_comp, is_animated, compat, in_len, out_stem, steps_list,
                   step_lower, step_upper, step_current, size_max, param, size,
                   result, result_step, probes, n_import>>
    /\ UNCHANGED <<fileVars, frameVars, jobVars, sideVars, exportVars>>

\* the budget _convert selects for the input
SelectSizeMax == IF is_animated THEN opt_comp.size_max_vid ELSE opt_comp.size_max_img

\* mutant of Midpoint: the lower end probed again
MidpointLower(lower, upper) == lower

\* mutant of Midpoint: the midpoint truncated instead of rounded half up
MidpointFloor(lower, upper) == (lower + upper) \div 2

\* the midpoint int(rounding((step_lower + step_upper) / 2))
Midpoint(lower, upper) == RoundHalfUp(lower + upper, 2)

\* mutant of FirstStep: the no-budget branch forgotten
FirstStepAlwaysMid(smax, lower, upper) == Midpoint(lower, upper)

\* the first ladder index _convert probes
FirstStep(smax, lower, upper) == IF IsNone(smax) THEN 0 ELSE Midpoint(lower, upper)

\* mutant of InitialUpper: the length of the ladder instead of its last index
InitialUpperLen(o) == o.steps + 1

\* line 181: step_upper = self.opt_comp.steps
InitialUpper(o) == o.steps

\* check_if_compatible miss, then lines 176-192 of _convert
GateMiss ==
    /\ pc = "start"
    /\ ~(AllCompatible /\ BytesTruthy(InputBytes))
    /\ cb' = cb \o <<"START_COMP">>
    /\ steps_list' = generate_steps_list(opt_comp)
    /\ step_lower' = 0
    /\ step_upper' = InitialUpper(opt_comp)
    /\ size_max' = SelectSizeMax
    /\ step_current' = FirstStep(SelectSizeMax, 0, InitialUpper(opt_comp))
    /\ pc' = "import"
    /\ UNCHANGED <<opt_comp, is_animated, compat, in_len, out_stem, param, size,
                   result, result_size, result_step, ret, written, probes, n_import>>
    /\ UNCHANGED <<fileVars, frameVars, jobVars, sideVars, exportVars>>

\* mutant of DecodedFrames: the frames in reverse order
DecodedFramesReversed(c) == [i \in 1..c.frames |-> c.frames - i]

\* the frames the decoder yields, each named by its index in the source
DecodedFrames(c) == [i \in 1..c.frames |-> i - 1]

\* frames_import decodes the input once into frames_raw
FramesImport ==
    /\ pc = "import"
    /\ n_import' = n_import + 1
    /\ frames_raw' = DecodedFrames(codec)
    /\ pc' = "loop"
    /\ UNCHANGED <<opt_comp, is_animated, compat, in_len, out_stem, steps_list,
                   ret, written, cb, fileVars, frames_processed, fps, drops, sums,
                   jobVars, sideVars, exportVars>>
    /\ UNCHANGED searchVars

\* frames_import raises: convert() ends with the exception
FramesImportRaises ==
    /\ pc = "import"
    /\ n_import' = n_import + 1
    /\ pc' = "raised"
    /\ UNCHANGED <<opt_comp, is_animated, compat, in_len, out_stem, steps_list,
                   ret, written, cb, fileVars, frameVars, jobVars, sideVars, exportVars>>
    /\ UNCHANGED searchVars

\* ---------------------------------------------------------- search loop

\* the encoder is a function of the ladder row and the frames it is given: a
\* ladder index encoded before with the same frames yields the size it yielded
Encodable(S, frames) ==
    \A i \in DOMAIN probes :
        (probes[i][1] = step_current /\ drops[i] = frames) => probes[i][2] = S

\* the i-th encode pass went through the selection loop of frames_drop
Looped(i, f) ==
    ~DropShortcut(is_animated, f, IF i = 1 THEN << >> ELSE frames_resize(drops[i - 1]))

\* double arithmetic is deterministic: a pass whose target fps an earlier pass
\* ran the loop with adds up the same doubles and meets the sums it met then
SameSums(f, below) ==
    \/ DropShortcut(is_animated, f, frames_processed)
    \/ \A i \in DOMAIN probes :
           (/\ IterationFps(Row(steps_list, probes[i][1]), codec, out_suffix, opt_comp) = f
            /\ Looped(i, f)) => sums[i] = below

\* mutant of Keep: a pass of the same size as the kept one does not replace it
KeepStrict(S) == ~Truthy(size_max) \/ (S <= size_max /\ S > result_size)

\* lines 229-231: the encode pass replaces the kept result
Keep(S) == ~Truthy(size_max) \/ (S <= size_max /\ S >= result_size)

\* mutant of Continue: the interval test off by one
ContinueOffByOne == step_upper - step_lower >= 1 /\ Truthy(size_max)

\* line 236: the search goes on
Continue == step_upper - step_lower > 1 /\ Truthy(size_max)

\* lines 237-242: the bounds after an encode pass of size S at step_current
NextUpper(S) == IF S <= size_max THEN step_current ELSE step_upper

\* mutant of NextLower: step_lower is not moved after an oversize pass
NextLowerStays(S) == step_lower

NextLower(S) == IF S <= size_max THEN step_lower ELSE step_current

KeptResult(S) == IF Keep(S) THEN EncBytes(step_current, S) ELSE result

KeptSize(S) == IF Keep(S) THEN S ELSE result_size

KeptStep(S) == IF Keep(S) THEN step_current ELSE result_step

\* lines 196-234: one encode pass at step_current that produces S bytes
EncodePass(S) ==
    /\ pc = "loop"
    /\ S \in Sizes
    /\ param' = Row(steps_list, step_current)
    /\ fps' = IterationFps(Row(steps_list, step_current), codec, out_suffix, opt_comp)
    /\ \E below \in Accumulators(frames_raw, is_animated, fps', frames_processed,
                                  codec, opt_comp) :
           /\ SameSums(fps', below)
           /\ sums' = Append(sums, below)
           /\ drops' = Append(drops, frames_drop(frames_raw, is_animated, fps',
                                                 frames_processed, codec, opt_comp, below))
    /\ frames_processed' = frames_resize(drops'[Len(drops')])
    /\ ExportFailure(param', frames_processed', fps', out_suffix, opt_comp, "none") = "none"
    /\ apngasm' = AsmAfter(apngasm, param', frames_processed', fps', out_suffix,
                           opt_comp, "none")
    /\ assembled' = AssembledAfter(assembled, apngasm, param', frames_processed', fps',
                                   out_suffix, opt_comp, "none")
    /\ scratch' = ScratchAfter(scratch, param', frames_processed', fps', out_suffix,
                               opt_comp, "none")
    /\ exc' = exc
    /\ Encodable(S, drops'[Len(drops')])
    /\ size' = S
    /\ result' = KeptResult(S)
    /\ result_size' = KeptSize(S)
    /\ result_step' = KeptStep(S)
    /\ probes' = Append(probes, <<step_current, S>>)
    /\ UNCHANGED <<opt_comp, is_animated, compat, in_len, out_stem, steps_list,
                   size_max, n_import, fileVars, frames_raw, jobVars, sideVars>>

\* lines 236-244: narrow the interval, recompute step_current, recompress
IterateNarrow ==
    \E S \in Sizes :
        /\ Continue
        /\ EncodePass(S)
        /\ step_upper' = NextUpper(S)
        /\ step_lower' = NextLower(S)
        /\ step_current' = Midpoint(NextLower(S), NextUpper(S))
        /\ cb' = cb \o <<"COMP", "REDO_COMP">>
        /\ pc' = "loop"
        /\ UNCHANGED <<ret, written>>

\* lines 245-246: compress_done(self.result, self.result_step), then update_bar
IterateDone ==
    \E S \in Sizes :
        /\ ~Continue
        /\ BytesTruthy(KeptResult(S))
        /\ EncodePass(S)
        /\ ret' = DoneRet(KeptResult(S), KeptSize(S))
        /\ written' = DoneWritten(KeptResult(S))
        /\ cb' = cb \o <<"COMP">> \o DoneMsgs(KeptStep(S)) \o <<"update_bar">>
        /\ pc' = "done"
        /\ UNCHANGED <<step_lower, step_upper, step_current>>

\* lines 247-248: compress_fail(), then update_bar
IterateFail ==
    \E S \in Sizes :
        /\ ~Continue
        /\ ~BytesTruthy(KeptResult(S))
        /\ EncodePass(S)
        /\ ret' = FailRet(S)
        /\ cb' = cb \o <<"COMP", "FAIL_COMP", "update_bar">>
        /\ pc' = "done"
        /\ UNCHANGED <<step_lower, step_upper, step_current, written>>

\* lines 196-224: an encode pass whose frames_export raises; the exception
\* leaves _convert and convert
IterateRaises ==
    \E fault \in ApngFaults :
        /\ pc = "loop"
        /\ param' = Row(steps_list, step_current)
        /\ fps' = IterationFps(Row(steps_list, step_current), codec, out_suffix, opt_comp)
        /\ \E below \in Accumulators(frames_raw, is_animated, fps', frames_processed,
                                      codec, opt_comp) :
               /\ SameSums(fps', below)
               /\ sums' = Append(sums, below)
               /\ drops' = Append(drops, frames_drop(frames_raw, is_animated, fps',
                                                     frames_processed, codec, opt_comp,
                                                     below))
        /\ frames_processed' = frames_resize(drops'[Len(drops')])
        /\ ExportFailure(param', frames_processed', fps', out_suffix, opt_comp, fault) # "none"
        /\ exc' = ExportFailure(param', frames_processed', fps', out_suffix, opt_comp, fault)
        /\ apngasm' = AsmAfter(apngasm, param', frames_processed', fps', out_suffix,
                               opt_comp, fault)
        /\ assembled' = AssembledAfter(assembled, apngasm, param', frames_processed',
                                       fps', out_suffix, opt_comp, fault)
        /\ scratch' = ScratchAfter(scratch, param', frames_processed', fps', out_suffix,
                                   opt_comp, fault)
        /\ probes' = Append(probes, <<step_current, None>>)
        /\ cb' = cb \o <<"COMP">>
        /\ pc' = "raised"
        /\ UNCHANGED <<opt_comp, is_animated, compat, in_len, out_stem, steps_list,
                       size_max, n_import, fileVars, frames_raw, jobVars, sideVars,
                       step_lower, step_upper, step_current, size, result,
                       result_size, result_step, ret, written>>

Next ==
    \/ GateHit
    \/ GateMiss
    \/ FramesImport
    \/ FramesImportRaises
    \/ IterateNarrow
    \/ IterateDone
    \/ IterateFail

Spec == Init /\ [][Next]_vars

\* ------------------------------------------------ ladder specification

\* <<max, min>> of each dimension: both set (even and odd), one or both missing
ResWBounds == {<<512, 256>>, <<511, 255>>, <<None, 256>>, <<512, None>>}

ResHBounds == {<<512, 256>>, <<385, 129>>, <<None, None>>, <<512, None>>}

QualityBounds == {<<95, 25>>, <<100, 0>>, <<None, 50>>, <<90, None>>}

FpsBounds == {<<30, 5>>, <<60, 1>>, <<None, None>>, <<30, None>>}

ColorBounds == {<<256, 8>>, <<257, 1>>, <<None, 1>>, <<None, None>>}

LadderDims(w, h, q, f, c, rp, qp) ==
    [res_w_max |-> w[1], res_w_min |-> w[2], res_h_max |-> h[1], res_h_min |-> h[2],
     quality_max |-> q[1], quality_min |-> q[2], fps_max |-> f[1], fps_min |-> f[2],
     color_max |-> c[1], color_min |-> c[2],
     res_power |-> rp, quality_power |-> qp, fps_power |-> qp, color_power |-> rp,
     duration_min |-> None, duration_max |-> None,
     quantize_method |-> "imagequant", cache_dir |-> "None"]

InitLadder ==
    /\ opt_comp \in {OptComp(n, None, None, LadderDims(w, h, q, f, c, rp, qp)) :
                        n \in 1..LadderMaxSteps, w \in ResWBounds, h \in ResHBounds,
                        q \in QualityBounds, f \in FpsBounds, c \in ColorBounds,
                        rp \in 0..MaxPower, qp \in 0..MaxPower}
    /\ is_animated = FALSE
    /\ codec = StillCodec
    /\ out_suffix = ".webp"
    /\ compat = [c \in CompatChecks |-> FALSE]
    /\ in_len \in InLens
    /\ out_stem = "bytes"
    /\ Constructed
    /\ ExecutorInit

\* steps_list = self.generate_steps_list() on its own
BuildLadder ==
    /\ pc = "start"
    /\ steps_list' = generate_steps_list(opt_comp)
    /\ pc' = "ladder"
    /\ UNCHANGED <<opt_comp, is_animated, compat, in_len, out_stem, ret, written,
                   cb, n_import, fileVars, frameVars, jobVars, sideVars, exportVars>>
    /\ UNCHANGED searchVars

NextLadder == BuildLadder

SpecLadder == InitLadder /\ [][NextLadder]_vars

\* the ladder over 1..MaxSteps steps, only the quality bounds and power varied
InitStepValue ==
    /\ opt_comp \in {OptComp(n, None, None,
                             LadderDims(<<512, 256>>, <<512, 256>>, q, <<30, 5>>,
                                        <<256, 8>>, 1, qp)) :
                        n \in 1..MaxSteps, q \in QualityBounds, qp \in 0..MaxPower}
    /\ is_animated = FALSE
    /\ codec = StillCodec
    /\ out_suffix = ".webp"
    /\ compat = [c \in CompatChecks |-> FALSE]
    /\ in_len \in InLens
    /\ out_stem = "bytes"
    /\ Constructed
    /\ ExecutorInit

SpecStepValue == InitStepValue /\ [][NextLadder]_vars

\* ------------------------------------------------ frames specification

\* codec_info_orig.fps, codec_info_orig.duration (ms) and the opt_comp bounds
\* the frame selection reads
SourceFps == {0, 10, 30}

SourceDurations == {200, 1000}

DurationMins == {None, 500, 1600}

DurationMaxs == {None, 100, 1000}

FrameFpsBounds == {<<30, 5>>, <<10, 10>>, <<25, 25>>, <<None, None>>}

OutSuffixes == {".gif", ".webp", ".webm"}

FrameBudgets == {None, 300000}

FrameDims(f, dmin, dmax) ==
    [DefaultDims EXCEPT !.fps_max = f[1], !.fps_min = f[2],
                        !.duration_min = dmin, !.duration_max = dmax]

\* the search over short ladders, the input's frames and the duration bounds varied
InitFrames ==
    /\ opt_comp \in {OptComp(n, b, b, FrameDims(f, dmin, dmax)) :
                        n \in 1..FramesMaxSteps, b \in FrameBudgets, f \in FrameFpsBounds,
                        dmin \in DurationMins, dmax \in DurationMaxs}
    /\ is_animated \in BOOLEAN
    /\ codec \in [fps : SourceFps, duration : SourceDurations, frames : 1..MaxFrames]
    /\ out_suffix \in OutSuffixes
    /\ compat \in {[c \in CompatChecks |-> b] : b \in BOOLEAN}
    /\ in_len \in InLens
    /\ out_stem = "sticker"
    /\ Constructed
    /\ ExecutorInit

SpecFrames == InitFrames /\ [][Next]_vars

\* ------------------------------------------------ export specification

\* <<quality_max, quality_min>> and <<color_max, color_min>> of the export
\* specification; quality 0 and colour counts above 256 are valid options
ExportQualities == {<<95, 25>>, <<100, 0>>, <<50, 50>>, <<None, None>>}

ExportColors == {<<256, 8>>, <<257, 2>>, <<None, None>>}

QuantizeMethods == {"imagequant", "fastoctree", "none"}

CacheDirs == {"None", "cache"}

ExportSuffixes == {".png", ".apng", ".webp", ".gif"}

ExportDims(q, c, method, dir) ==
    [DefaultDims EXCEPT !.quality_max = q[1], !.quality_min = q[2],
                        !.color_max = c[1], !.color_min = c[2],
                        !.quantize_method = method, !.cache_dir = dir]

\* the search over short ladders, the options of the export path varied
InitExport ==
    /\ opt_comp \in {OptComp(n, b, b, ExportDims(q, c, method, dir)) :
                        n \in 1..ExportMaxSteps, b \in FrameBudgets, q \in ExportQualities,
                        c \in ExportColors, method \in QuantizeMethods, dir \in CacheDirs}
    /\ is_animated \in BOOLEAN
    /\ codec = (IF is_animated THEN AnimCodec ELSE StillCodec)
    /\ out_suffix \in ExportSuffixes
    /\ compat \in {[c \in CompatChecks |-> b] : b \in BOOLEAN}
    /\ in_len \in InLens
    /\ out_stem = "sticker"
    /\ Constructed
    /\ ExecutorInit

NextExport ==
    \/ Next
    \/ IterateRaises

SpecExport == InitExport /\ [][NextExport]_vars

\* ------------------------------------------------ quantizer specification

RECURSIVE QuantCaps(_)
\* range(self.quality, 101, 5): the max_quality caps in the order tried
QuantCaps(q) == IF q >= 101 THEN << >> ELSE <<q>> \o QuantCaps(q + 5)

\* the attempts made when the k-th is the first to succeed; k = 0: all raise
\* RuntimeError
QuantTried(q, k) ==
    IF k = 0 THEN QuantCaps(q) ELSE SubSeq(QuantCaps(q), 1, k)

InitQuantize ==
    /\ opt_comp = OptComp(1, None, None, ExportDims(<<100, 1>>, <<256, 8>>,
                                                     "imagequant", "cache"))
    /\ is_animated = FALSE
    /\ codec = StillCodec
    /\ out_suffix = ".png"
    /\ compat = [c \in CompatChecks |-> FALSE]
    /\ in_len \in InLens
    /\ out_stem = "sticker"
    /\ Constructed
    /\ ExecutorInit

\* _quantize_by_imagequant at quality q: the loop of lines 791-802 returns at
\* the first attempt that does not raise RuntimeError, line 804 returns the image
QuantizeCall ==
    \E q \in opt_comp.quality_min..opt_comp.quality_max :
        \E k \in 0..Len(QuantCaps(q)) :
            /\ pc = "start"
            /\ param' = <<None, None, q, None, opt_comp.color_max>>
            /\ quant' = [tried |-> QuantTried(q, k),
                         out |-> IF k = 0 THEN "unquantized" ELSE "quantized"]
            /\ pc' = "quantized"
            /\ UNCHANGED <<opt_comp, is_animated, compat, in_len, out_stem, steps_list,
                           step_lower, step_upper, step_current, size_max, size,
                           result, result_size, result_step, ret, written, cb, probes,
                           n_import, fileVars, frameVars, jobVars, execVars, exportVars,
                           cbVars, startVars, poolVars>>

NextQuantize == QuantizeCall

SpecQuantize == InitQuantize /\ [][NextQuantize]_vars

\* -------------------------------------------------- fix_fps specification

\* the frame rates asked of fix_fps
FixFpsRequests == {1, 7, 28, 30, 41, 60, 70, 250, 2500}

\* (fps_max, fps_min) of the options
FixFpsLimits == {<<30, 5>>, <<30, 30>>, <<60, 40>>, <<250, 5>>, <<0, 0>>, <<None, None>>}

FixFpsSuffixes == {".gif", ".webp", ".apng", ".png", ".webm"}

InitFixFps ==
    /\ opt_comp \in {OptComp(1, None, None, FrameDims(f, None, None)) :
                        f \in FixFpsLimits}
    /\ is_animated = TRUE
    /\ codec = AnimCodec
    /\ out_suffix \in FixFpsSuffixes
    /\ compat = [c \in CompatChecks |-> FALSE]
    /\ in_len \in InLens
    /\ out_stem = "sticker"
    /\ Constructed
    /\ ExecutorInit

\* self.fps = self.fix_fps(r) for a requested rate r (line 202 of _convert)
FixFpsCall ==
    \E r \in FixFpsRequests :
        /\ pc = "start"
        /\ param' = <<None, None, None, r, None>>
        /\ IF FixFpsRaises(<<r, 1>>, out_suffix, opt_comp)
           THEN fps' = fps /\ exc' = "ZeroDivisionError"
           ELSE fps' = fix_fps(<<r, 1>>, out_suffix, opt_comp) /\ exc' = exc
        /\ pc' = "fixed"
        /\ UNCHANGED <<opt_comp, is_animated, compat, in_len, out_stem, steps_list,
                       step_lower, step_upper, step_current, size_max, size,
                       result, result_size, result_step, ret, written, cb, probes,
                       n_import, fileVars, frames_raw, frames_processed, drops, sums,
                       jobVars, sideVars, apngasm, assembled, scratch>>

NextFixFps == FixFpsCall

SpecFixFps == InitFixFps /\ [][NextFixFps]_vars

\* ------------------------------------------------ task-layer specification

convertVars == <<opt_comp, is_animated, compat, in_len, out_stem, steps_list,
                 n_import, written, ret, fileVars, frameVars>>

\* Executor.worker, lines 129-130: convert returned, its result is queued
WorkerResult ==
    /\ pc = "done"
    /\ results_queue' = Append(results_queue, ret)
    /\ pc' = "reported"
    /\ UNCHANGED <<convertVars, searchVars, cb, compress_ret, sideVars, exportVars>>

\* Executor.worker, lines 131-143: convert raised, the traceback text is put
\* on the callback queue and nothing on the results queue
WorkerExcept ==
    /\ pc = "raised"
    /\ cb' = Append(cb, "EXCEPTION")
    /\ pc' = "reported"
    /\ UNCHANGED <<convertVars, searchVars, jobVars, sideVars, exportVars>>

\* Job.compress after join_workers: False if a queued result has success False
CompressReturn(queue) ==
    IF \E i \in DOMAIN queue : queue[i].success = FALSE THEN "False" ELSE "True"

\* Job.compress, lines 630-637: join the workers and scan the results
JobCompress ==
    /\ pc = "reported"
    /\ compress_ret' = CompressReturn(results_queue)
    /\ pc' = "joined"
    /\ UNCHANGED <<convertVars, searchVars, cb, results_queue, sideVars, exportVars>>

NextJob ==
    \/ Next
    \/ WorkerResult
    \/ WorkerExcept
    \/ JobCompress

\* one conversion run by a worker of the task layer
SpecJob == InitFrames /\ [][NextJob]_vars

\* ------------------------------------------------ executor specification

\* the end marker of the work list: None
EndMarker == [func |-> "None", args |-> << >>, outcome |-> "none"]

\* the name of the i-th input file
FileName(i) == <<"f1", "f2", "f3", "f4", "f5">>[i]

\* work items: a conversion that returns success, returns failure or raises,
\* and a download, whose arguments hold the CredOption, that raises
ConvertWork(i, outcome) ==
    [func |-> "StickerConvert.convert",
     args |-> <<FileName(i), "out_f", "CompOption">>, outcome |-> outcome]

DownloadWork(i) ==
    [func |-> "Downloader.start",
     args |-> <<FileName(i), "dir", "CredOption">>, outcome |-> "raise"]

WorkKinds(i) ==
    {ConvertWork(i, "ok"), ConvertWork(i, "fail"), ConvertWork(i, "raise"),
     DownloadWork(i)}

\* mutant of Redact: the arguments dumped as they are
RedactNothing(args) == args

\* lines 132-137: arg_dump, every CredOption replaced
Redact(args) ==
    [i \in DOMAIN args |->
        IF args[i] = "CredOption" THEN "CredOption(REDACTED)" ELSE args[i]]

\* lines 138-142: the text put on cb_queue for a work item that raised
Report(work) ==
    [kind |-> "report", func |-> work.func, args |-> Redact(work.args),
     trace |-> "traceback"]

\* what a work function that returns hands back: (success, in_f, ...)
WorkResult(work) ==
    [success |-> (work.outcome = "ok"), out |-> work.args[1], data |-> NoBytes,
     size |-> 0]

\* opt_comp.processes: one worker process, or two
ProcessChoices == {1, 2}

\* start_workers(processes=min(self.opt_comp.processes, in_fs_count))
Processes(p, n) == IF p < n THEN p ELSE n

\* after add_work for every input and start_workers: each worker about to pop
InitExecutor ==
    /\ opt_comp = OptComp(1, None, None, DefaultDims)
    /\ is_animated = FALSE
    /\ codec = StillCodec
    /\ out_suffix = ".webp"
    /\ compat = [c \in CompatChecks |-> FALSE]
    /\ in_len \in InLens
    /\ out_stem = "sticker"
    /\ Constructed
    /\ results_queue = << >>
    /\ compress_ret = "unset"
    /\ \E n \in 0..MaxItems :
          /\ tasks \in {t \in [1..n -> UNION {WorkKinds(i) : i \in 1..n}] :
                           \A i \in 1..n : t[i] \in WorkKinds(i)}
          /\ \E p \in ProcessChoices :
                workers = [w \in 1..Processes(p, n) |->
                              [pc |-> "pop", work |-> EndMarker, why |-> "none"]]
    /\ processes = [w \in DOMAIN workers |-> w]
    /\ results_end = None
    /\ work_list = tasks
    /\ jpc = "started"
    /\ quant = NoQuant
    /\ CallbackInit

execOther == <<convertVars, searchVars, pc, compress_ret, exportVars, quant, cbVars,
               startVars, poolVars>>

\* mutant of WorkerPop: the first item is read and left on the list
WorkerPopPeek(w) ==
    /\ workers[w].pc = "pop"
    /\ IF work_list = << >>
       THEN workers' = [workers EXCEPT ![w].pc = "exit", ![w].why = "empty"]
       ELSE IF Head(work_list) = EndMarker
       THEN workers' = [workers EXCEPT ![w].pc = "exit", ![w].why = "marker"]
       ELSE workers' = [workers EXCEPT ![w].pc = "run", ![w].work = Head(work_list)]
    /\ UNCHANGED <<execOther, cb, results_queue, tasks, jpc, work_list, joinVars>>

\* lines 119-127: pop the first item; an empty list or the end marker ends the loop
WorkerPop(w) ==
    /\ workers[w].pc = "pop"
    /\ IF work_list = << >>
       THEN /\ workers' = [workers EXCEPT ![w].pc = "exit", ![w].why = "empty"]
            /\ UNCHANGED work_list
       ELSE /\ work_list' = Tail(work_list)
            /\ IF Head(work_list) = EndMarker
               THEN workers' = [workers EXCEPT ![w].pc = "exit", ![w].why = "marker"]
               ELSE workers' = [workers EXCEPT ![w].pc = "run", ![w].work = Head(work_list)]
    /\ UNCHANGED <<execOther, cb, results_queue, tasks, jpc, joinVars>>

\* lines 128-143: run the work function; queue its result, or report its exception
WorkerRun(w) ==
    /\ workers[w].pc = "run"
    /\ IF workers[w].work.outcome = "raise"
       THEN /\ cb' = Append(cb, Report(workers[w].work))
            /\ UNCHANGED results_queue
       ELSE /\ results_queue' = Append(results_queue, WorkResult(workers[w].work))
            /\ UNCHANGED cb
    /\ workers' = [workers EXCEPT ![w].pc = "pop"]
    /\ UNCHANGED <<execOther, tasks, work_list, jpc, joinVars>>

\* mutant of WorkerExit: the process ends without appending the end marker
WorkerExitSilent(w) ==
    /\ workers[w].pc = "exit"
    /\ workers' = [workers EXCEPT ![w].pc = "exited"]
    /\ UNCHANGED <<execOther, cb, results_queue, tasks, jpc, work_list, joinVars>>

\* line 145: work_list.append(None), then the process ends
WorkerExit(w) ==
    /\ workers[w].pc = "exit"
    /\ work_list' = Append(work_list, EndMarker)
    /\ workers' = [workers EXCEPT ![w].pc = "exited"]
    /\ UNCHANGED <<execOther, cb, results_queue, tasks, jpc, joinVars>>

WorkerStep(w) == WorkerPop(w) \/ WorkerRun(w) \/ WorkerExit(w)

\* join_workers, line 169: work_list.append(None)
JoinAppend ==
    /\ jpc = "started"
    /\ work_list' = Append(work_list, EndMarker)
    /\ jpc' = "joining"
    /\ UNCHANGED <<execOther, cb, results_queue, tasks, workers, joinVars>>

\* mutant of JoinReturn: the processes are not waited for
JoinReturnEarly ==
    /\ jpc = "joining"
    /\ results_end' = Len(results_queue)
    /\ work_list' = << >>
    /\ processes' = << >>
    /\ jpc' = "joined"
    /\ UNCHANGED <<execOther, cb, results_queue, tasks, workers>>

\* join_workers, lines 170-178: every process joined, the results closed with
\* None, the work list and the process list emptied
JoinReturn ==
    /\ jpc = "joining"
    /\ \A w \in DOMAIN workers : workers[w].pc = "exited"
    /\ results_end' = Len(results_queue)
    /\ work_list' = << >>
    /\ processes' = << >>
    /\ jpc' = "joined"
    /\ UNCHANGED <<execOther, cb, results_queue, tasks, workers>>

\* Job.compress, lines 633-637: the scan of the results up to the closing None
CompressScan ==
    /\ jpc = "joined"
    /\ compress_ret' = CompressReturn(results_queue)
    /\ jpc' = "returned"
    /\ UNCHANGED <<convertVars, searchVars, pc, cb, results_queue, tasks,
                   work_list, workers, exportVars, quant, cbVars, joinVars, startVars,
                   poolVars>>

NextExecutor ==
    \/ \E w \in DOMAIN workers : WorkerPop(w)
    \/ \E w \in DOMAIN workers : WorkerRun(w)
    \/ \E w \in DOMAIN workers : WorkerExit(w)
    \/ JoinAppend
    \/ JoinReturn
    \/ CompressScan

SpecExecutor == InitExecutor /\ [][NextExecutor]_vars

\* every process and the coordinator keep being scheduled; work functions return
SpecExecutorFair ==
    /\ SpecExecutor
    /\ \A w \in ProcessChoices : WF_vars(w \in DOMAIN workers /\ WorkerStep(w))
    /\ WF_vars(JoinAppend)
    /\ WF_vars(JoinReturn)
    /\ WF_vars(CompressScan)

\* ------------------------------------------ callback-thread specification

\* a queue item: a tuple (action, args, kwargs), a plain string (kept in
\* action), or the None that ends the thread
CbTuple(action, args, kwargs) ==
    [tag |-> "tuple", action |-> action, args |-> args, kwargs |-> kwargs]

CbString(text) == [tag |-> "str", action |-> text, args |-> "None", kwargs |-> "None"]

CbNone == [tag |-> "none", action |-> "None", args |-> "None", kwargs |-> "None"]

\* the actions cb_thread knows
CbActions == {"msg", "bar", "update_bar", "msg_block", "ask_bool", "ask_str"}

\* what the producers put: Executor.cb's 3-tuples with or without arguments
\* (the action may be None), the bare "update_bar" of convert, status strings
CbItems ==
    {CbTuple(a, "args", "None") : a \in {"msg", "msg_block", "ask_bool", "ask_str"}}
        \cup {CbTuple("msg", "None", "None"), CbTuple("bar", "None", "kwargs"),
              CbTuple("update_bar", "None", "None"), CbTuple("None", "None", "None"),
              CbString("update_bar"), CbString("status")}

\* mutant of CbCall: only a tuple is dispatched by its action
CbCallTupleOnly(i) ==
    LET args == IF i.args = "None" THEN "empty" ELSE i.args
        kwargs == IF i.kwargs = "None" THEN "empty" ELSE i.kwargs
    IN  IF i.tag = "tuple" /\ i.action = "msg"
        THEN [fn |-> "cb_msg", args |-> args, kwargs |-> kwargs, respond |-> FALSE]
        ELSE IF i.tag = "tuple" /\ i.action = "bar"
        THEN [fn |-> "cb_bar", args |-> args, kwargs |-> kwargs, respond |-> FALSE]
        ELSE IF i.tag = "tuple" /\ i.action = "update_bar"
        THEN [fn |-> "cb_bar", args |-> "empty", kwargs |-> "update_bar=1", respond |-> FALSE]
        ELSE IF i.tag = "tuple" /\ i.action \in {"msg_block", "ask_bool", "ask_str"}
        THEN [fn |-> "cb_" \o i.action, args |-> args, kwargs |-> kwargs, respond |-> TRUE]
        ELSE [fn |-> "cb_msg", args |-> i.action, kwargs |-> "empty", respond |-> FALSE]

\* the body of the loop of cb_thread, lines 81-108: the call made for item i;
\* args and kwargs that are None or empty become () and {}, a string is its
\* own action
CbCall(i) ==
    LET args == IF i.tag = "tuple" /\ i.args # "None" THEN i.args ELSE "empty"
        kwargs == IF i.tag = "tuple" /\ i.kwargs # "None" THEN i.kwargs ELSE "empty"
    IN  IF i.action = "msg"
        THEN [fn |-> "cb_msg", args |-> args, kwargs |-> kwargs, respond |-> FALSE]
        ELSE IF i.action = "bar"
        THEN [fn |-> "cb_bar", args |-> args, kwargs |-> kwargs, respond |-> FALSE]
        ELSE IF i.action = "update_bar"
        THEN [fn |-> "cb_bar", args |-> "empty", kwargs |-> "update_bar=1", respond |-> FALSE]
        ELSE IF i.action \in {"msg_block", "ask_bool", "ask_str"}
        THEN [fn |-> "cb_" \o i.action, args |-> args, kwargs |-> kwargs, respond |-> TRUE]
        ELSE [fn |-> "cb_msg", args |-> i.action, kwargs |-> "empty", respond |-> FALSE]

InitCallback ==
    /\ opt_comp = OptComp(1, None, None, DefaultDims)
    /\ is_animated = FALSE
    /\ codec = StillCodec
    /\ out_suffix = ".webp"
    /\ compat = [c \in CompatChecks |-> FALSE]
    /\ in_len \in InLens
    /\ out_stem = "sticker"
    /\ Constructed
    /\ ExecutorInit

cbOther == <<convertVars, searchVars, pc, jobVars, execVars, exportVars, quant, startVars,
             poolVars>>

\* a producer (Executor.cb, a worker, convert) puts an item
CbPut ==
    \E i \in CbItems :
        /\ Len(cb) < MaxPuts
        /\ cleanup.n = 0
        /\ cb' = Append(cb, i)
        /\ cb_queue' = Append(cb_queue, i)
        /\ UNCHANGED <<cbOther, cb_calls, cb_alive, cleanup>>

\* one turn of iter(cb_queue.get, None): the oldest item is taken; None ends
\* the loop, any other item is handled before the next get
CbHandle ==
    /\ cb_alive
    /\ cb_queue # << >>
    /\ cb_queue' = Tail(cb_queue)
    /\ IF Head(cb_queue) = CbNone
       THEN cb_alive' = FALSE /\ UNCHANGED cb_calls
       ELSE cb_calls' = Append(cb_calls, CbCall(Head(cb_queue))) /\ UNCHANGED cb_alive
    /\ UNCHANGED <<cbOther, cb, cleanup>>

\* the items cleanup puts, lines 189-192
CleanupItems(killed) ==
    (IF killed THEN <<CbString("Job cancelled.")>> ELSE << >>)
        \o <<CbTuple("bar", "None", "kwargs"), CbNone>>

\* Executor.cleanup up to its join: by Job.start at the end of the job, by
\* kill_workers when the job is cancelled, or by both
CleanupPut ==
    \E killed \in BOOLEAN :
        /\ cleanup.pc # "joining"
        /\ cleanup.n < 2
        /\ cb' = cb \o CleanupItems(killed)
        /\ cb_queue' = cb_queue \o CleanupItems(killed)
        /\ cleanup' = [n |-> cleanup.n + 1, pc |-> "joining"]
        /\ UNCHANGED <<cbOther, cb_calls, cb_alive>>

\* line 193: cb_thread_instance.join() returns once the thread has ended
CleanupJoin ==
    /\ cleanup.pc = "joining"
    /\ ~cb_alive
    /\ cleanup' = [cleanup EXCEPT !.pc = "done"]
    /\ UNCHANGED <<cbOther, cb, cb_queue, cb_calls, cb_alive>>

NextCallback ==
    \/ CbPut
    \/ CbHandle
    \/ CleanupPut
    \/ CleanupJoin

SpecCallback == InitCallback /\ [][NextCallback]_vars

\* the thread is scheduled while it has an item to take, and join returns
SpecCallbackFair ==
    /\ SpecCallback
    /\ WF_vars(CbHandle)
    /\ WF_vars(CleanupJoin)

\* --------------------------------------------- frames_resize specification

\* lines 545-548: the canvas, a missing bound taken from the frame
ResizeCanvas(w, h, res_w, res_h) ==
    <<IF IsNone(res_w) THEN w ELSE res_w, IF IsNone(res_h) THEN h ELSE res_h>>

\* lines 550-555: the size the frame is scaled to on canvas c
ResizeScaled(w, h, c) ==
    IF w > h THEN <<c[1], (h * c[1]) \div w>> ELSE <<(w * c[2]) \div h, c[2]>>

\* lines 561-564: where the scaled frame is pasted, // rounding down
ResizeOffset(c, scaled) == <<(c[1] - scaled[1]) \div 2, (c[2] - scaled[2]) \div 2>>

\* <<width, height>> of the frames given to frames_resize
ResizeFrames ==
    {<<512, 512>>, <<200, 100>>, <<100, 200>>, <<512, 511>>, <<300, 301>>, <<64, 48>>}

\* the res_w and res_h of a ladder row
ResizeTargets == {None, 129, 256, 385, 512}

\* frames_resize of one frame on the canvas of a ladder row
FramesResize ==
    \E f \in ResizeFrames, res_w \in ResizeTargets, res_h \in ResizeTargets :
        /\ pc = "start"
        /\ param' = <<res_w, res_h, None, None, None>>
        /\ LET c == ResizeCanvas(f[1], f[2], res_w, res_h)
           IN  resized' = [frame |-> f, canvas |-> c,
                           scaled |-> ResizeScaled(f[1], f[2], c),
                           offset |-> ResizeOffset(c, ResizeScaled(f[1], f[2], c))]
        /\ pc' = "resized"
        /\ UNCHANGED <<opt_comp, is_animated, compat, in_len, out_stem, steps_list,
                       step_lower, step_upper, step_current, size_max, size,
                       result, result_size, result_step, ret, written, cb, probes,
                       n_import, fileVars, frameVars, jobVars, execVars, exportVars,
                       quant, cbVars, startVars, flow>>

NextResize == FramesResize

SpecResize == InitCallback /\ [][NextResize]_vars

\* ------------------------------------------------ Job.start specification

\* line 250: the tasks of a job, in the order of the tuple
StartTasks == <<"verify_input", "cleanup", "download", "compress", "export", "report">>

startOther == <<convertVars, searchVars, pc, jobVars, execVars, exportVars, quant,
                poolVars>>

\* Executor.cb(action, kwargs=...): a 3-tuple put on the callback queue
ExecutorCb(item) ==
    /\ cb' = Append(cb, item)
    /\ cb_queue' = Append(cb_queue, item)

\* lines 242-259: the directories made, the screen cleared, code = 0
StartBegin ==
    /\ start.pc = "idle"
    /\ ExecutorCb(CbTuple("msg", "None", "kwargs"))
    /\ start' = [start EXCEPT !.pc = "loop"]
    /\ UNCHANGED <<startOther, cb_calls, cb_alive, cleanup, is_cancel_job>>

\* lines 260-262: the next task of the tuple is called; the loop ends after
\* the last
TaskBegin ==
    /\ start.pc = "loop"
    /\ IF start.i > Len(StartTasks)
       THEN /\ start' = [start EXCEPT !.pc = "after"]
            /\ UNCHANGED <<cb, cb_queue>>
       ELSE /\ ExecutorCb(CbTuple("bar", "None", "kwargs"))
            /\ start' = [start EXCEPT
                            !.pc = "task",
                            !.ran = Append(@, [task |-> StartTasks[start.i],
                                               flag_before |-> is_cancel_job,
                                               success |-> TRUE, flag_after |-> 0])]
    /\ UNCHANGED <<startOther, cb_calls, cb_alive, cleanup, is_cancel_job>>

\* lines 262-270: the task returns success; the cancel flag is read, then the
\* success
TaskEnd ==
    \E success \in BOOLEAN :
        /\ start.pc = "task"
        /\ LET ran == [start.ran EXCEPT ![Len(start.ran)].success = success,
                                         ![Len(start.ran)].flag_after = is_cancel_job]
           IN  IF is_cancel_job = 1
               THEN /\ start' = [start EXCEPT !.pc = "after", !.code = 2, !.ran = ran]
                    /\ UNCHANGED <<cb, cb_queue>>
               ELSE IF ~success
               THEN /\ start' = [start EXCEPT !.pc = "after", !.code = 1, !.ran = ran]
                    /\ ExecutorCb(CbTuple("An error occured during this run.",
                                          "None", "None"))
               ELSE /\ start' = [start EXCEPT !.pc = "loop", !.i = @ + 1, !.ran = ran]
                    /\ UNCHANGED <<cb, cb_queue>>
        /\ UNCHANGED <<startOther, cb_calls, cb_alive, cleanup, is_cancel_job>>

\* line 272: self.executor.cleanup() up to its join
StartCleanup ==
    /\ start.pc = "after"
    /\ cb' = cb \o CleanupItems(FALSE)
    /\ cb_queue' = cb_queue \o CleanupItems(FALSE)
    /\ cleanup' = [n |-> cleanup.n + 1, pc |-> "joining"]
    /\ start' = [start EXCEPT !.pc = "cleanup"]
    /\ UNCHANGED <<startOther, cb_calls, cb_alive, is_cancel_job>>

\* line 274: return code
StartReturn ==
    /\ start.pc = "cleanup"
    /\ cleanup.pc = "done"
    /\ start' = [start EXCEPT !.pc = "returned"]
    /\ UNCHANGED <<startOther, cbVars, cb, is_cancel_job>>

\* Job.cancel, from the SIGINT handler or the GUI, at any moment of the job:
\* kill_workers sets the flag, terminates the processes and calls cleanup(killed=True)
CancelJob ==
    /\ start.pc \in {"loop", "task", "after", "cleanup"}
    /\ is_cancel_job = 0
    /\ is_cancel_job' = 1
    /\ cb' = cb \o CleanupItems(TRUE)
    /\ cb_queue' = cb_queue \o CleanupItems(TRUE)
    /\ cleanup' = [cleanup EXCEPT !.n = @ + 1]
    /\ UNCHANGED <<startOther, cb_calls, cb_alive, start>>

NextStart ==
    \/ StartBegin
    \/ TaskBegin
    \/ TaskEnd
    \/ StartCleanup
    \/ StartReturn
    \/ CancelJob
    \/ CbHandle
    \/ CleanupJoin

SpecStart == InitCallback /\ [][NextStart]_vars

\* ---------------------------------------------- Flow.compress specification

\* opt_comp['processes'] of a Flow
FlowProcesses == {0, 1, 2}

\* what a call of convert_and_compress_to_size ends with
FlowResults == {"True", "False", "raise"}

flowOther == <<convertVars, searchVars, pc, cb, jobVars, execVars, exportVars, quant,
               cbVars, startVars, resized>>

\* sum((t.is_alive() for t in threads)), line 352
AliveCount == Cardinality({i \in DOMAIN flow.threads : flow.threads[i].state = "alive"})

\* lines 306-331: the input files are listed, cb_bar gets their count
FlowBegin ==
    \E p \in FlowProcesses, n \in 0..MaxFiles :
        /\ flow.pc = "idle"
        /\ flow' = [flow EXCEPT !.pc = "create", !.processes = p, !.files = n, !.steps = n]
        /\ UNCHANGED flowOther

\* lines 333-348: the next round of the for loop makes the Thread of the next
\* file and appends it; after the last file the loop ends
FlowCreate ==
    /\ flow.pc = "create"
    /\ IF Len(flow.threads) < flow.files
       THEN flow' = [flow EXCEPT
                        !.threads = Append(@, [file |-> Len(@) + 1, state |-> "new"]),
                        !.pc = "wait"]
       ELSE flow' = [flow EXCEPT !.pc = "join"]
    /\ UNCHANGED flowOther

\* mutant of FlowTryStart: the thread is started whatever the number alive
FlowStartUnchecked ==
    /\ flow.pc = "wait"
    /\ flow' = [flow EXCEPT !.threads[Len(flow.threads)].state = "alive", !.pc = "create"]
    /\ UNCHANGED flowOther

\* lines 350-355: the thread just appended is started once fewer than
\* processes threads are alive; until then the loop sleeps and tests again
FlowTryStart ==
    /\ flow.pc = "wait"
    /\ AliveCount < flow.processes
    /\ flow' = [flow EXCEPT !.threads[Len(flow.threads)].state = "alive", !.pc = "create"]
    /\ UNCHANGED flowOther

\* compress_thread, lines 363-368: the conversion ends; a False result is
\* recorded and the bar advances, an exception ends the thread before both
ThreadFinish(i) ==
    \E r \in FlowResults :
        /\ flow.threads[i].state = "alive"
        /\ flow' = [flow EXCEPT
                        !.threads[i].state = "finished",
                        !.fails = IF r = "False" THEN Append(@, flow.threads[i].file)
                                  ELSE @,
                        !.bar = IF r = "raise" THEN @ ELSE @ + 1]
        /\ UNCHANGED flowOther

\* lines 357-358: join returns for the next thread of the list once it has ended
FlowJoin ==
    /\ flow.pc = "join"
    /\ flow.joined < Len(flow.threads)
    /\ flow.threads[flow.joined + 1].state = "finished"
    /\ flow' = [flow EXCEPT !.joined = @ + 1]
    /\ UNCHANGED flowOther

\* line 360: return True
FlowReturn ==
    /\ flow.pc = "join"
    /\ flow.joined = Len(flow.threads)
    /\ flow' = [flow EXCEPT !.pc = "returned"]
    /\ UNCHANGED flowOther

NextFlow ==
    \/ FlowBegin
    \/ FlowCreate
    \/ FlowTryStart
    \/ \E i \in 1..MaxFiles : i \in DOMAIN flow.threads /\ ThreadFinish(i)
    \/ FlowJoin
    \/ FlowReturn

SpecFlow == InitCallback /\ [][NextFlow]_vars

\* the main thread runs, and every conversion terminates
SpecFlowFair ==
    /\ SpecFlow
    /\ WF_vars(FlowCreate)
    /\ WF_vars(FlowTryStart)
    /\ WF_vars(FlowJoin)
    /\ WF_vars(FlowReturn)
    /\ \A i \in 1..MaxFiles : WF_vars(i \in DOMAIN flow.threads /\ ThreadFinish(i))

\* ============================================================== properties

RECURSIVE CeilLog2(_)
\* the least k with 2^k >= n, n >= 1
CeilLog2(n) == IF n <= 1 THEN 0 ELSE 1 + CeilLog2((n + 1) \div 2)

\* the search path was taken: the gate missed and the input was decoded
SearchRan == n_import > 0 /\ pc \in {"loop", "done"}

\* a budget is set for the running search
BudgetSet == ~IsNone(size_max)

ProbeSteps == {probes[i][1] : i \in DOMAIN probes}

ProbeSizes == {probes[i][2] : i \in DOMAIN probes}

\* the sizes measured so far that fit the budget
CompliantSizes == {n \in ProbeSizes : n <= size_max}

SetMax(S) == CHOOSE x \in S : \A y \in S : y <= x

SetMin(S) == CHOOSE x \in S : \A y \in S : x <= y

\* ---- C1
\* C1 (as claimed): whenever a size budget is set (size_max is not None),
\* _convert never returns success with a recorded size above the budget.
\* Violated: size_max = 0 is a budget for line 188 and none for lines 229/236.
C1_SuccessWithinBudget ==
    (pc = "done" /\ SearchRan /\ BudgetSet /\ ret.success) => ret.size <= size_max

\* ---- C2
\* C2: in every state of the search, 0 <= step_lower <= step_current <=
\* step_upper <= steps.
C2_StepOrder ==
    /\ 0 <= step_lower
    /\ step_lower <= step_current
    /\ step_current <= step_upper
    /\ step_upper <= opt_comp.steps

\* C2 witness: an interval narrowed from both ends, the probe strictly inside
C2_Witness ==
    /\ pc = "loop"
    /\ 0 < step_lower
    /\ step_lower < step_current
    /\ step_current < step_upper
    /\ step_upper < opt_comp.steps

\* ---- C3
\* C3 (as claimed): with a budget set, after every iteration the kept result is
\* the largest measured size that fits the budget: whatever is kept fits the
\* budget, and no measured compliant size is larger than the kept one.
\* Violated for size_max = 0 (see C1): the oversize output is kept.
C3_BestIsLargestCompliant ==
    (SearchRan /\ BudgetSet /\ probes # << >>) =>
        /\ BytesTruthy(result) => result_size <= size_max
        /\ BytesTruthy(result) => <<result_step, result_size>> \in
                                      {probes[i] : i \in DOMAIN probes}
        /\ CompliantSizes # {} => result_size = SetMax(CompliantSizes)
        /\ CompliantSizes = {} => ~BytesTruthy(result)

\* ---- C4
\* C4 (as claimed): with a budget set the search makes at most
\* ceil(log2(steps + 1)) encode passes.  Violated for steps = 3 (3 passes).
C4_Original ==
    (SearchRan /\ BudgetSet) => Len(probes) <= CeilLog2(opt_comp.steps + 1)

\* C4 (amended): with a budget set the search makes at most
\* ceil(log2(steps)) + 1 encode passes.
C4_EncodeBound ==
    (SearchRan /\ BudgetSet) => Len(probes) <= CeilLog2(opt_comp.steps) + 1

\* C4 witness: a finished search over steps = 10 that took all 5 passes
C4_Witness ==
    /\ pc = "done"
    /\ BudgetSet
    /\ opt_comp.steps = 10
    /\ Len(probes) = CeilLog2(opt_comp.steps) + 1

\* ---- C5
\* scenario A: animated input, steps = 10, size_max = 500000
ScenarioA ==
    /\ is_animated
    /\ opt_comp.steps = 10
    /\ opt_comp.size_max_vid = 500000
    /\ SearchRan

\* C5 (as claimed): in scenario A the first probe is step 5; when it encodes to
\* 600000 lower becomes 5, and the search then probes step 2, which encoding to
\* 300000 sets upper = 2 and the best result 300000 at step 2, and next probes
\* step 3 or 4; at the end upper - lower <= 1.  Violated: after lower = 5 only
\* steps above 5 are probed.
C5_Original ==
    ScenarioA =>
        /\ Len(probes) >= 1 => probes[1][1] = 5
        /\ (Len(probes) >= 1 /\ probes[1][2] = 600000) => step_lower >= 5
        /\ (pc = "done" /\ probes[1][2] = 600000) => 2 \in ProbeSteps
        /\ \A i \in DOMAIN probes :
              (i > 1 /\ probes[i - 1] = <<5, 600000>> /\ probes[i] = <<2, 300000>>) =>
                  /\ step_upper <= 2
                  /\ result_size >= 300000
                  /\ (Len(probes) = i /\ pc = "loop") => step_current \in {3, 4}
        /\ pc = "done" => step_upper - step_lower <= 1

\* scenario A as the code runs it, state by state
C5_ScenarioStates ==
    ScenarioA =>
        /\ Len(probes) >= 1 => probes[1][1] = 5
        /\ (Len(probes) = 1 /\ probes[1][2] = 600000) =>
              /\ pc = "loop"
              /\ step_lower = 5
              /\ step_upper = 10
              /\ step_current = 8
        /\ (Len(probes) = 2 /\ probes[1] = <<5, 600000>> /\ probes[2] = <<8, 300000>>) =>
              /\ pc = "loop"
              /\ step_lower = 5
              /\ step_upper = 8
              /\ result = EncBytes(8, 300000)
              /\ result_size = 300000
              /\ result_step = 8
              /\ step_current = 7
        /\ pc = "done" => step_upper - step_lower <= 1

\* the iteration that starts with upper - lower <= 1 is the last one
C5_ScenarioStep ==
    (ScenarioA /\ pc = "loop" /\ step_upper - step_lower <= 1) => pc' = "done"

\* C5 (amended): in scenario A the first probe is step 5; when it encodes to
\* 600000 lower becomes 5 and the next probe is step 8; when that encodes to
\* 300000, upper = 8 and the best result is 300000 at step 8, and the next
\* probe is step 7; the search ends with the encode pass that starts with
\* upper - lower <= 1.
C5_ScenarioA == [] C5_ScenarioStates /\ [][C5_ScenarioStep]_vars

\* C5 witness: scenario A after step 5 gave 600000 and step 8 gave 300000
C5_Witness ==
    /\ ScenarioA
    /\ probes = << <<5, 600000>>, <<8, 300000>> >>
    /\ step_current = 7

\* ---- C6
\* C6: with no size budget configured the search makes exactly one encode
\* pass, at ladder index 0, and converges in success with that output.
C6_NoBudgetSingleEncode ==
    (SearchRan /\ IsNone(SelectSizeMax)) =>
        /\ pc \in {"loop", "done"}
        /\ pc = "loop" => (probes = << >> /\ step_current = 0)
        /\ pc = "done" =>
              /\ Len(probes) = 1
              /\ probes[1][1] = 0
              /\ ret.success
              /\ ret.size = probes[1][2]
              /\ result = EncBytes(0, probes[1][2])
              /\ result_step = 0

\* C6 witness: a finished no-budget conversion over a ladder of several steps
C6_Witness ==
    /\ pc = "done"
    /\ SearchRan
    /\ IsNone(SelectSizeMax)
    /\ opt_comp.steps > 1
    /\ Len(probes) = 1

\* ---- C7
\* the compatibility gate was taken: check_if_compatible put MSG_SKIP_COMP
Bypassed == cb # << >> /\ cb[1] = "SKIP_COMP"

\* C7: the gate bypasses the pipeline iff all five checks hold; a bypass ends
\* in success with the input bytes as output and the input length as size,
\* without any decode or encode; otherwise the decode-and-search path runs.
C7_GateBypass ==
    pc # "start" =>
        /\ Bypassed <=> \A c \in CompatChecks : compat[c]
        /\ Bypassed =>
              /\ pc = "done"
              /\ ret.success
              /\ ret.size = in_len
              /\ result_size = in_len
              /\ out_stem = "bytes" => ret.data = InputBytes
              /\ out_stem \notin {"none", "bytes"} => written = InputBytes
              /\ n_import = 0
              /\ probes = << >>
        /\ ~Bypassed =>
              /\ pc \in {"import", "loop", "done", "raised"}
              /\ pc \in {"loop", "done"} => n_import = 1
              /\ pc = "done" => Len(probes) >= 1

\* C7 witness: a bypassed conversion that wrote the input bytes to the output
C7_Witness ==
    /\ pc = "done"
    /\ Bypassed
    /\ written = InputBytes
    /\ n_import = 0

\* ---- C8
\* C8: at convergence the conversion returns success with the kept result and
\* its step if a result is kept, else failure; a failure with a budget set has
\* encoded the last ladder index (steps) and measured a size above the budget.
C8_ConvergedOutcome ==
    (pc = "done" /\ SearchRan) =>
        /\ ret.success <=> BytesTruthy(result)
        /\ ret.success =>
              /\ ret.size = result_size
              /\ result = EncBytes(result_step, result_size)
              /\ out_stem = "bytes" => ret.data = result
              /\ out_stem \notin {"none", "bytes"} => written = result
              /\ Truthy(result_step) => cb[Len(cb) - 1] = "DONE_COMP"
        /\ (~ret.success /\ BudgetSet) =>
              /\ probes[Len(probes)][1] = opt_comp.steps
              /\ probes[Len(probes)][2] > size_max
              /\ cb[Len(cb) - 1] = "FAIL_COMP"

\* C8 witness: a failed search under a budget after several encode passes
C8_Witness ==
    /\ pc = "done"
    /\ SearchRan
    /\ BudgetSet
    /\ ~ret.success
    /\ Len(probes) >= 3

\* ---- C9
\* C9 (as claimed, for a positive budget): when every explored step exceeds the
\* budget the outcome is a failed result whose size is the smallest size
\* measured.  Violated: compress_fail reports the size of the last pass.
C9_FailReportsBest ==
    (pc = "done" /\ SearchRan /\ Truthy(size_max) /\ CompliantSizes = {}) =>
        /\ ~ret.success
        /\ ret.size = SetMin(ProbeSizes)

\* ---- C10
\* the even flag of get_step_value: an odd value is raised by one
EvenUp(v) == IF v % 2 = 1 THEN v + 1 ELSE v

\* <<max, min, column, even>> of the five dimensions of opt_comp
Dimensions ==
    { <<opt_comp.res_w_max, opt_comp.res_w_min, 1, TRUE>>,
      <<opt_comp.res_h_max, opt_comp.res_h_min, 2, TRUE>>,
      <<opt_comp.quality_max, opt_comp.quality_min, 3, FALSE>>,
      <<opt_comp.fps_max, opt_comp.fps_min, 4, FALSE>>,
      <<opt_comp.color_max, opt_comp.color_min, 5, FALSE>> }

Bounded(d) == ~IsNone(d[1]) /\ ~IsNone(d[2])

\* C10 (as claimed): the ladder has steps + 1 rows; in row 0 every bounded
\* dimension equals its max and in row steps its min; a dimension with a
\* missing bound is null in every row.  Violated for an odd width or height
\* bound, which the even flag raises by one.
C10_Original ==
    pc = "ladder" =>
        /\ Len(steps_list) = opt_comp.steps + 1
        /\ \A d \in Dimensions :
              IF Bounded(d)
              THEN /\ Row(steps_list, 0)[d[3]] = d[1]
                   /\ Row(steps_list, opt_comp.steps)[d[3]] = d[2]
              ELSE \A i \in 0..opt_comp.steps : IsNone(Row(steps_list, i)[d[3]])

\* C10 (amended): as claimed, except that for width and height row 0 holds the
\* max and row steps the min raised to the next even integer.
C10_LadderEnds ==
    pc = "ladder" =>
        /\ Len(steps_list) = opt_comp.steps + 1
        /\ \A d \in Dimensions :
              IF Bounded(d)
              THEN /\ Row(steps_list, 0)[d[3]] = IF d[4] THEN EvenUp(d[1]) ELSE d[1]
                   /\ Row(steps_list, opt_comp.steps)[d[3]] =
                          IF d[4] THEN EvenUp(d[2]) ELSE d[2]
              ELSE \A i \in 0..opt_comp.steps : IsNone(Row(steps_list, i)[d[3]])

\* C10 witness: a ladder of several steps with odd width bounds, even height
\* bounds and a dimension without bounds
C10_Witness ==
    /\ pc = "ladder"
    /\ opt_comp.steps > 1
    /\ opt_comp.res_w_max = 511
    /\ opt_comp.res_h_max = 512
    /\ Row(steps_list, 0)[1] = 512
    /\ IsNone(opt_comp.fps_max)
    /\ IsNone(Row(steps_list, 1)[4])

\* ---- C11
\* the value get_step_value returned for `step` in the quality column
QualityAt(step) == Row(steps_list, opt_comp.steps - step)[3]

\* C11 (as claimed): with power 1 the value is linear in step / steps between
\* min and max; get_step_value(100, 0, 5, 10, 1) = 50, 0 for step 0 and 100
\* for step 10.  Violated: the code multiplies step / steps by the factor
\* (step / steps) ^ power, so power 1 is quadratic and the value is 25.
C11_LinearAtPowerOne ==
    (pc = "ladder" /\ opt_comp.quality_power = 1
        /\ ~IsNone(opt_comp.quality_max) /\ ~IsNone(opt_comp.quality_min)) =>
        /\ \A step \in 0..opt_comp.steps :
              QualityAt(step) =
                  RoundHalfEven((opt_comp.quality_max - opt_comp.quality_min) * step
                                    + opt_comp.quality_min * opt_comp.steps,
                                opt_comp.steps)
        /\ (opt_comp.quality_max = 100 /\ opt_comp.quality_min = 0
                /\ opt_comp.steps = 10) =>
              /\ QualityAt(5) = 50
              /\ QualityAt(0) = 0
              /\ QualityAt(10) = 100

\* ---- C12
\* C12: every width and height of every ladder row that is not null is even
\* (the even flag raises an odd value by one).
C12_ResolutionEven ==
    pc = "ladder" =>
        \A i \in 0..opt_comp.steps : \A col \in {1, 2} :
            ~IsNone(Row(steps_list, i)[col]) => Row(steps_list, i)[col] % 2 = 0

\* C12 witness: a middle row whose width was odd before the even flag applied
C12_Witness ==
    /\ pc = "ladder"
    /\ opt_comp.steps = 2
    /\ ~IsNone(Row(steps_list, 1)[1])
    /\ get_step_value(opt_comp.res_w_max, opt_comp.res_w_min, 1, opt_comp.steps,
                      opt_comp.res_power, FALSE) % 2 = 1
    /\ Row(steps_list, 1)[1] =
          get_step_value(opt_comp.res_w_max, opt_comp.res_w_min, 1, opt_comp.steps,
                         opt_comp.res_power, FALSE) + 1

\* ------------------------------------------------------ frame selection

\* what frames_drop returned in the latest encode pass
LastDrop == drops[Len(drops)]

\* self.frames_processed as the i-th encode pass found it
PrevProcessed(i) == IF i = 1 THEN << >> ELSE frames_resize(drops[i - 1])

\* C13: for a non-animated source every encode pass's frames_drop returned
\* exactly one frame, the first decoded one, whatever the fps and the duration
\* bounds are.
C13_StaticOneFrame ==
    ~is_animated => \A i \in DOMAIN drops : drops[i] = <<frames_raw[1]>>

\* C13 witness: a static source of several decoded frames, with a non-zero
\* target fps and a duration bound, after its second encode pass
C13_Witness ==
    /\ ~is_animated
    /\ Len(drops) >= 2
    /\ Len(frames_raw) > 1
    /\ FracTruthy(fps)
    /\ Truthy(opt_comp.duration_min)
    /\ LastDrop = <<frames_raw[1]>>

\* C14: for an animated source with a non-zero target fps and a single decoded
\* frame, frames_drop returns exactly that frame, once, in every encode pass
\* (the first included), whatever the duration bounds are.
C14_SingleFrameSource ==
    (is_animated /\ Len(frames_raw) = 1 /\ Len(drops) >= 1 /\ FracTruthy(fps)) =>
        LastDrop = <<frames_raw[1]>>

\* the latest encode pass went through the selection loop of frames_drop
Resampled ==
    /\ Len(drops) >= 1
    /\ ~DropShortcut(is_animated, fps, PrevProcessed(Len(drops)))

BothDurations == ~IsNone(opt_comp.duration_min) /\ ~IsNone(opt_comp.duration_max)

\* ceil(fps * duration_min / 1000) and floor(fps * duration_max / 1000) for the
\* fps of the latest encode pass
MinCount == (fps[1] * opt_comp.duration_min + fps[2] * 1000 - 1) \div (fps[2] * 1000)

MaxCount == (fps[1] * opt_comp.duration_max) \div (fps[2] * 1000)

RECURSIVE SelectedCount(_, _, _, _, _)
\* how many frames the selection loop appends before it stops: round k selects
\* while its index is inside the source and the cap fmax is not reached
SelectedCount(n, inc, fmax, k, below) ==
    IF (IF k \in below THEN (k * inc[1]) \div inc[2]
                       ELSE (k * inc[1] * 2 + inc[2]) \div (2 * inc[2])) <= n - 1
           /\ ~(fmax > 0 /\ k - 1 = fmax)
    THEN SelectedCount(n, inc, fmax, k + 1, below)
    ELSE k - 1

\* the rounds of the latest pass whose accumulator lay under a half
LastSums == sums[Len(sums)]

LastSelected ==
    SelectedCount(Len(frames_raw), FrameIncrement(fps, codec, opt_comp),
                  IF IsNone(opt_comp.duration_max) THEN None ELSE MaxCount, 1, LastSums)

\* the length the padding brings the output to
PaddedLength ==
    LET want == IF Truthy(opt_comp.duration_min) THEN MinCount ELSE 0
        least == IF want > 1 THEN want ELSE 1
    IN  IF LastSelected >= least THEN LastSelected ELSE least

\* C16 as stated: every padding frame repeats the last frame the selection
\* loop put in the output.
C16_Original ==
    (Resampled /\ LastSelected >= 1) =>
        \A j \in (LastSelected + 1)..Len(LastDrop) : LastDrop[j] = LastDrop[LastSelected]

\* C16 amended: when the selection loop produced fewer frames than the minimum
\* count, the output is padded up to that count (at least one frame) and every
\* padding frame is the last decoded frame of the source.
C16_PadsWithLastSource ==
    Resampled =>
        /\ Len(LastDrop) = PaddedLength
        /\ Len(LastDrop) >= 1
        /\ \A j \in (LastSelected + 1)..Len(LastDrop) :
               LastDrop[j] = frames_raw[Len(frames_raw)]

\* C16 witness: frames were selected, the last of them is not the last decoded
\* frame, and padding frames follow
C16_Witness ==
    /\ Resampled
    /\ LastSelected >= 1
    /\ Len(LastDrop) > LastSelected + 1
    /\ LastDrop[LastSelected] # frames_raw[Len(frames_raw)]
    /\ LastDrop[Len(LastDrop)] = frames_raw[Len(frames_raw)]

\* C17: within one conversion the output of frames_drop at a ladder step is
\* the same whenever that step is encoded, whatever was probed or produced in
\* between.
C17_DropIsPure ==
    \A i, j \in DOMAIN drops : probes[i][1] = probes[j][1] => drops[i] = drops[j]

\* ------------------------------------------------------ decode and channel

\* C18: a conversion that misses the gate decodes exactly once, before the
\* first encode pass, and frames_raw stays the decoded sequence through every
\* pass, each pass's frames being taken from it.
C18_DecodeOnce ==
    /\ n_import <= 1
    /\ Len(probes) > 0 => n_import = 1
    /\ SearchRan =>
          /\ n_import = 1
          /\ frames_raw = [i \in 1..codec.frames |-> i - 1]
          /\ \A i \in DOMAIN drops : \A j \in DOMAIN drops[i] :
                \E k \in DOMAIN frames_raw : drops[i][j] = frames_raw[k]

\* C18 witness: a finished search of two encode passes over several frames
C18_Witness ==
    /\ SearchRan
    /\ pc = "done"
    /\ Len(probes) >= 2
    /\ Len(frames_raw) >= 2
    /\ drops[1] # drops[2]

\* the items the core puts on the channel: its status messages and "update_bar"
StatusItems ==
    {"SKIP_COMP", "START_COMP", "COMP", "REDO_COMP", "DONE_COMP", "FAIL_COMP",
     "update_bar"}

\* C19: every item on the progress channel is a status message or a progress
\* update, never an ask_bool, ask_str or msg_block request.
C19_StatusOnly ==
    \A i \in DOMAIN cb :
        cb[i] \in StatusItems /\ cb[i] \notin {"ask_bool", "ask_str", "msg_block"}

\* C19 witness: a finished search that recompressed and reported a kept step
C19_Witness ==
    /\ pc = "done"
    /\ \E i \in DOMAIN cb : cb[i] = "REDO_COMP"
    /\ \E i \in DOMAIN cb : cb[i] = "DONE_COMP"
    /\ cb[Len(cb)] = "update_bar"

\* ------------------------------------------------------------- task layer

\* the worker is past a conversion whose decoding raised
DecodeFailed == pc \in {"reported", "joined"} /\ n_import = 1 /\ ret = NoRet

\* C20: a conversion whose decoding failed leaves a result with success false
\* on the results queue, the worker goes on, and Job.compress sees the failure.
C20_DecodeFailureSurfaced ==
    /\ DecodeFailed =>
          /\ Len(results_queue) = 1
          /\ results_queue[1].success = FALSE
    /\ (DecodeFailed /\ pc = "joined") => compress_ret = "False"

\* ---------------------------------------------------------------- executor

\* the work items that raise
RaisingTasks == {i \in DOMAIN tasks : tasks[i].outcome = "raise"}

\* C21: every report on the callback queue belongs to one work item that
\* raised, names its function, carries its arguments with every CredOption
\* replaced by 'CredOption(REDACTED)', and the stack trace; a raising item is
\* reported once; and when join_workers has returned every work item has
\* been run: each raising item is reported and each other item has its result.
C21_WorkerReports ==
    /\ \A k \in DOMAIN cb :
          /\ cb[k].kind = "report"
          /\ cb[k].trace = "traceback"
          /\ \A a \in DOMAIN cb[k].args : cb[k].args[a] # "CredOption"
          /\ \E i \in RaisingTasks :
                /\ cb[k].func = tasks[i].func
                /\ Len(cb[k].args) = Len(tasks[i].args)
                /\ \A a \in DOMAIN cb[k].args :
                      cb[k].args[a] = IF tasks[i].args[a] = "CredOption"
                                      THEN "CredOption(REDACTED)" ELSE tasks[i].args[a]
          /\ \A m \in DOMAIN cb : cb[m].args[1] = cb[k].args[1] => m = k
    /\ jpc \in {"joined", "returned"} =>
          /\ Len(cb) = Cardinality(RaisingTasks)
          /\ Len(results_queue) = Len(tasks) - Cardinality(RaisingTasks)
          /\ \A i \in DOMAIN tasks \ RaisingTasks :
                \E r \in DOMAIN results_queue : results_queue[r].out = tasks[i].args[1]

\* C21 witness: the first item raised with a CredOption among its arguments,
\* and the items after it were run all the same
C21_Witness ==
    /\ jpc = "joined"
    /\ Len(tasks) >= 2
    /\ tasks[1] = DownloadWork(1)
    /\ \E k \in DOMAIN cb : cb[k].args = <<"f1", "dir", "CredOption(REDACTED)">>
    /\ Len(results_queue) >= 1

\* ------------------------------------------------------------------ export

\* the options satisfy the data model: steps >= 1, quality bounds in 0..100
\* with min <= max, colour bounds with 1 <= min <= max, fps bounds with min <= max
ValidOptions ==
    /\ opt_comp.steps >= 1
    /\ opt_comp.quality_min \in 0..100 /\ opt_comp.quality_max \in 0..100
    /\ opt_comp.quality_min <= opt_comp.quality_max
    /\ 1 <= opt_comp.color_min /\ opt_comp.color_min <= opt_comp.color_max
    /\ 1 <= opt_comp.fps_min /\ opt_comp.fps_min <= opt_comp.fps_max

\* C22: with valid options no conversion ends in a failed precondition
\* assertion of the export or quantize path.
C22_NoAssertionFails ==
    ValidOptions => exc # "AssertionError"

\* C24: whenever frames_export is left, by returning or by raising, the
\* assembler holds no frames, and an assembly is made of exactly the frames of
\* its iteration.
C24_AssemblerReset ==
    /\ apngasm.frames = << >>
    /\ assembled # << >> => assembled = frames_processed

\* C25: get_cache_store gives the export a scratch directory with or without
\* a configured path, and every scratch directory created has been removed
\* when the export is left.
C25_ScratchRemoved ==
    /\ scratch.made = scratch.removed
    /\ exc # "TypeError"

\* ---------------------------------------------------------------- quantizer

\* C23: the caps attempted are quality, quality + 5, ... in that order; a
\* quantized image is returned by the last attempt made; and when every
\* attempt failed the unquantized image is returned after an attempt with
\* cap 100.
C23_QuantizerRetries ==
    pc = "quantized" =>
        /\ Len(quant.tried) >= 1
        /\ \A i \in DOMAIN quant.tried : quant.tried[i] = param[3] + 5 * (i - 1)
        /\ \A i \in DOMAIN quant.tried : quant.tried[i] <= 100
        /\ quant.out \in {"quantized", "unquantized"}
        /\ quant.out = "unquantized" => quant.tried[Len(quant.tried)] = 100

\* ------------------------------------------------------------ end marker

\* the end markers in the work list
MarkersListed == Cardinality({i \in DOMAIN work_list : work_list[i] = EndMarker})

WorkersLeft(why) ==
    Cardinality({w \in DOMAIN workers :
                    workers[w].pc \in {"exit", "exited"} /\ workers[w].why = why})

WorkersExited == Cardinality({w \in DOMAIN workers : workers[w].pc = "exited"})

AllExited == \A w \in DOMAIN workers : workers[w].pc = "exited"

\* C26 as stated: a worker leaves its loop only when it has popped the end
\* marker.
C26_Original ==
    \A w \in DOMAIN workers :
        workers[w].pc \in {"exit", "exited"} => workers[w].why = "marker"

\* every end marker was appended by join_workers or by one worker that ended,
\* each once: the markers listed and the markers popped add up to them
MarkersBalance ==
    jpc \in {"started", "joining"} =>
        MarkersListed + WorkersLeft("marker")
            = WorkersExited + (IF jpc = "joining" THEN 1 ELSE 0)

\* C26 amended: a worker leaves its loop when it pops the end marker or finds
\* the work list empty, and then appends the end marker exactly once; once
\* join_workers has appended its end marker every worker exits and
\* join_workers returns.
C26_WorkersExit ==
    /\ [](\A w \in DOMAIN workers :
            workers[w].pc \in {"exit", "exited"} => workers[w].why \in {"marker", "empty"})
    /\ []MarkersBalance
    /\ (jpc = "joining") ~> (AllExited /\ jpc \in {"joined", "returned"})

\* C26 witness: join_workers returned after one of two workers left on an
\* empty list and the other on the end marker
C26_Witness ==
    /\ jpc = "joined"
    /\ Len(workers) = 2
    /\ AllExited
    /\ WorkersLeft("empty") = 1
    /\ WorkersLeft("marker") = 1

\* C27 as written: the rate returned for a container with a time base is, among
\* the rates time base / d with d a whole number of delay units, one nearest to
\* the rate requested
FixFpsDistLeq(den, d1, d2, r) ==
    LET a1 == IF den >= r * d1 THEN den - r * d1 ELSE r * d1 - den
        a2 == IF den >= r * d2 THEN den - r * d2 ELSE r * d2 - den
    IN  a1 * d2 <= a2 * d1

C27_Original ==
    (pc = "fixed" /\ FixFpsDenominator(out_suffix) # 0 /\ exc = "none") =>
        LET den == FixFpsDenominator(out_suffix)
        IN  \E d \in 1..(2 * den) :
                /\ fps[1] * d = den * fps[2]
                /\ \A e \in 1..(2 * den) : FixFpsDistLeq(den, d, e, param[4])

\* C27 amended: for a container with a time base the delay is the time base
\* divided by the requested rate, rounded half up, then raised by one unit when
\* the rate it gives exceeds fps_max, else lowered by one unit when that rate is
\* below fps_min; the rate returned is time base / delay, and a delay of 0
\* raises ZeroDivisionError; for any other container the rate is rounded to a
\* whole number
C27_FixFps ==
    pc = "fixed" =>
        LET den == FixFpsDenominator(out_suffix)
            r == param[4]
            d == (2 * den + r) \div (2 * r)
            over == Truthy(opt_comp.fps_max) /\ d * opt_comp.fps_max < den
            under == Truthy(opt_comp.fps_min) /\ den < d * opt_comp.fps_min
            e == IF d = 0 THEN 0 ELSE IF over THEN d + 1 ELSE IF under THEN d - 1 ELSE d
        IN  IF den = 0 THEN fps = <<r, 1>> /\ exc = "none"
            ELSE IF e = 0 THEN exc = "ZeroDivisionError"
            ELSE exc = "none" /\ fps[1] * e = den * fps[2]

\* a .gif rate lowered to respect fps_max
C27_Witness ==
    /\ pc = "fixed"
    /\ out_suffix = ".gif"
    /\ param[4] = 30
    /\ opt_comp.fps_max = 30
    /\ fps = <<25, 1>>

RECURSIVE BeforeNone(_)
\* the items of a sequence that precede its first None
BeforeNone(q) ==
    IF q = << >> \/ Head(q) = CbNone THEN << >> ELSE <<Head(q)>> \o BeforeNone(Tail(q))

\* the call the claim gives for an item
ClaimedCall(i, c) ==
    IF i.tag = "str"
    THEN IF i.action = "update_bar"
         THEN c.fn = "cb_bar" /\ c.kwargs = "update_bar=1"
         ELSE c.fn = "cb_msg" /\ c.args = i.action
    ELSE IF i.action = "update_bar"
    THEN c.fn = "cb_bar" /\ c.kwargs = "update_bar=1"
    ELSE IF i.action \in CbActions
    THEN /\ c.fn = "cb_" \o i.action
         /\ c.args = (IF i.args = "None" THEN "empty" ELSE i.args)
         /\ c.kwargs = (IF i.kwargs = "None" THEN "empty" ELSE i.kwargs)
         /\ c.respond = (i.action \in {"msg_block", "ask_bool", "ask_str"})
    ELSE c.fn = "cb_msg" /\ c.args = i.action

\* the calls made so far answer, one for one and in order, the items put
\* before the first None; once the thread has ended they answer all of them
CallsInOrder ==
    /\ Len(cb_calls) <= Len(BeforeNone(cb))
    /\ \A k \in 1..Len(cb_calls) : ClaimedCall(BeforeNone(cb)[k], cb_calls[k])
    /\ Len(cb_calls) + Len(cb_queue) + (IF cb_alive THEN 0 ELSE 1) = Len(cb)
    /\ ~cb_alive => (Len(cb_calls) = Len(BeforeNone(cb)) /\ Len(BeforeNone(cb)) < Len(cb))

\* C28: the callback thread handles the items in the order they were put, one
\* call per item: a tuple by its action, a plain string as a message, the bare
\* string "update_bar" as a bar increment; every item before the first None is
\* handled exactly once, nothing after it is, and once cleanup has put its None
\* the thread ends and cleanup returns
C28_CallbackThread ==
    /\ []CallsInOrder
    /\ (cleanup.pc = "joining") ~> (cleanup.pc = "done" /\ ~cb_alive)

\* a cancelled job cleaned up twice: the thread stopped at the first None with a
\* bare "update_bar" and a status string handled, the later items left queued
C28_Witness ==
    /\ cleanup = [n |-> 2, pc |-> "done"]
    /\ ~cb_alive
    /\ cb_queue # << >>
    /\ Len(cb_calls) >= 3
    /\ cb[1] = CbString("update_bar")
    /\ cb[2] = CbString("status")

\* every work item of the phase is a conversion
ConversionPhase ==
    \A i \in DOMAIN tasks : tasks[i].func = "StickerConvert.convert"

\* C29: Job.compress returns False if a conversion of the phase failed, by
\* returning a failure or by raising, and True only when every input file was
\* converted
C29_CompressResult ==
    (jpc = "returned" /\ ConversionPhase) =>
        (compress_ret = "True" <=> \A i \in DOMAIN tasks : tasks[i].outcome = "ok")

\* C30: with a budget set, an iteration that is not the last leaves
\* step_upper - step_lower at least 1 and smaller than before (so at most steps
\* less the passes made), the last iteration probes step_upper, and the search
\* ends within steps encode passes
C30_SearchTerminates ==
    (SearchRan /\ BudgetSet) =>
        /\ Len(probes) <= opt_comp.steps
        /\ (pc = "loop" /\ probes # << >>) =>
              /\ step_upper - step_lower >= 1
              /\ step_upper - step_lower <= opt_comp.steps - Len(probes)
        /\ pc = "done" => probes[Len(probes)][1] = step_upper

\* a positive budget is set for the running search
PositiveBudget == Truthy(size_max) /\ size_max > 0

\* C31: with a positive budget every encode pass is at a ladder index in
\* 1..steps, the index about to be probed is too, and the step of a successful
\* result is never index 0
C31_IndexZeroNeverProbed ==
    (SearchRan /\ PositiveBudget) =>
        /\ \A i \in DOMAIN probes : probes[i][1] \in 1..opt_comp.steps
        /\ step_current \in 1..opt_comp.steps
        /\ (pc = "done" /\ ret.success) => result_step \in 1..opt_comp.steps

\* a search that narrowed down to index 1, every size within the budget
C31_Witness ==
    /\ pc = "done"
    /\ PositiveBudget
    /\ SearchRan
    /\ ret.success
    /\ opt_comp.steps >= 4
    /\ result_step = 1
    /\ \A i \in DOMAIN probes : probes[i][2] <= size_max

\* the sizes of Sizes, largest first
SizesDescending == <<600000, 500000, 300000>>

\* an encoder whose size does not increase with the ladder index: the largest
\* size below index a, the middle one from a to b - 1, the smallest from b on
MonotoneSize(a, b, j) ==
    IF j < a THEN SizesDescending[1] ELSE IF j < b THEN SizesDescending[2]
    ELSE SizesDescending[3]

\* the cut points of the monotone encoders that agree with every pass made
MonotoneEncoders ==
    {ab \in (0..(opt_comp.steps + 1)) \X (0..(opt_comp.steps + 1)) :
        /\ ab[1] <= ab[2]
        /\ \A i \in DOMAIN probes :
              MonotoneSize(ab[1], ab[2], probes[i][1]) = probes[i][2]}

\* the ladder indices from 1 on whose size under the encoder fits the budget
Compliant(ab) ==
    {j \in 1..opt_comp.steps : MonotoneSize(ab[1], ab[2], j) <= size_max}

\* C32: for an encoder whose size does not increase with the ladder index, a
\* finished search with a positive budget succeeded exactly when some index in
\* 1..steps fits the budget, and then returns the smallest such index
C32_SmallestCompliantStep ==
    (pc = "done" /\ SearchRan /\ PositiveBudget) =>
        \A ab \in MonotoneEncoders :
            /\ ret.success <=> Compliant(ab) # {}
            /\ ret.success => result_step = SetMin(Compliant(ab))

\* size 600000 at index 1, 500000 at indices 2..4, 300000 from 5 on, steps = 8
\* and a budget of 500000: index 2 is returned, though index 4, probed first,
\* gives the same size
C32_Witness ==
    /\ pc = "done"
    /\ SearchRan
    /\ size_max = 500000
    /\ opt_comp.steps = 8
    /\ <<2, 5>> \in MonotoneEncoders
    /\ ret.success
    /\ result_step = 2
    /\ probes[1] = <<4, 500000>>

\* how often work item i is on the list, is being run, and has been run (it
\* left a result or a report)
Listed(i) == Cardinality({k \in DOMAIN work_list : work_list[k] = tasks[i]})

Running(i) ==
    Cardinality({w \in DOMAIN workers :
                    workers[w].pc = "run" /\ workers[w].work = tasks[i]})

Executed(i) ==
    Cardinality({k \in DOMAIN results_queue : results_queue[k] = WorkResult(tasks[i])})
        + Cardinality({k \in DOMAIN cb : cb[k] = Report(tasks[i])})

GetResult == SubSeq(results_queue, 1, results_end)

EarlierTasksPassed ==
    \A k \in 1..(Len(start.ran) - 1) :
        start.ran[k].success /\ start.ran[k].flag_after = 0

\* the return code the claim gives for the last task ended
ClaimedCode ==
    LET last == start.ran[Len(start.ran)]
    IN  IF last.flag_after = 1 THEN 2 ELSE IF ~last.success THEN 1 ELSE 0

\* C35 without its clause on the cancel flag at the start of a task
C35_OrderAndCode ==
    /\ \A k \in DOMAIN start.ran : start.ran[k].task = StartTasks[k]
    /\ EarlierTasksPassed
    /\ start.pc \in {"after", "cleanup", "returned"} =>
          /\ start.code = ClaimedCode
          /\ start.code = 0 => Len(start.ran) = Len(StartTasks)
    /\ start.pc = "returned" =>
          (cleanup.pc = "done" /\ ~cb_alive /\ cleanup.n = 1 + is_cancel_job)

\* C35: Job.start runs its six tasks in the order of the tuple, starts no task
\* once a task returned false or the cancel flag was set, returns 2 when the
\* flag is set after a task, else 1 when the task failed, else 0, and has
\* called Executor.cleanup when it returns
C35_StartSequence ==
    /\ C35_OrderAndCode
    /\ \A k \in DOMAIN start.ran : start.ran[k].flag_before = 0

\* the positions of the bar increments among the items the conversion put
BarIncrements == {k \in DOMAIN cb : cb[k] = "update_bar"}

\* C36: a conversion task that has ended, by returning or by raising, has put
\* exactly one "update_bar", after all its status messages, so that a phase
\* of one input file increments the bar once
C36_OneBarIncrement ==
    /\ pc \in {"done", "raised"} =>
          (Cardinality(BarIncrements) = 1 /\ cb[Len(cb)] \in {"update_bar", "EXCEPTION"})
    /\ \A k \in BarIncrements : \A j \in (k + 1)..Len(cb) : cb[j] = "EXCEPTION"
    /\ compress_ret # "unset" => Cardinality(BarIncrements) = 1

\* C37: the canvas is the target width and height of the row, the scaled
\* frame fits inside it, and both paste offsets are non-negative
C37_ResizeFits ==
    pc = "resized" =>
        /\ ~IsNone(param[1]) => resized.canvas[1] = param[1]
        /\ ~IsNone(param[2]) => resized.canvas[2] = param[2]
        /\ resized.scaled[1] <= resized.canvas[1]
        /\ resized.scaled[2] <= resized.canvas[2]
        /\ resized.offset[1] >= 0
        /\ resized.offset[2] >= 0

\* C38: for a container with a time base and a requested rate of at most
\* fps_max, no division by a delay of 0 happens and the rate returned is at
\* most fps_max
C38_DelayAndCap ==
    (/\ pc = "fixed"
     /\ FixFpsDenominator(out_suffix) # 0
     /\ Truthy(opt_comp.fps_max)
     /\ param[4] <= opt_comp.fps_max) =>
        /\ exc = "none"
        /\ fps[1] <= opt_comp.fps_max * fps[2]


\* ------------------------------------------------------------ resampling

\* fps_ratio * speed_ratio of the latest encode pass
LastIncrement == FrameIncrement(fps, codec, opt_comp)

\* round_half_up(k * fps_ratio * speed_ratio)
ClosedFormIndex(k) == RoundHalfUp(k * LastIncrement[1], LastIncrement[2])

\* C39: in the resampling path of frames_drop the k-th frame the loop puts in
\* the output is the source frame at index round_half_up(k * fps_ratio *
\* speed_ratio); the selected indices lie in [0, len(frames_in) - 1] and do not
\* decrease, and source frame 0 is selected only when the increment is below
\* one half.
C39_ResampledIndices ==
    Resampled =>
        /\ \A k \in 1..LastSelected :
               /\ ClosedFormIndex(k) <= Len(frames_raw) - 1
               /\ LastDrop[k] = frames_raw[ClosedFormIndex(k) + 1]
               /\ LastDrop[k] \in 0..(Len(frames_raw) - 1)
               /\ k > 1 => LastDrop[k - 1] <= LastDrop[k]
               /\ LastDrop[k] = 0 => 2 * LastIncrement[1] < LastIncrement[2]

\* the part of C39 that does not depend on the accumulator's rounding error:
\* the selected indices lie in the source, do not decrease, and each is the
\* closed form's index or, in a round of sums, the one below it
ResampledOrderAndRange ==
    Resampled =>
        \A k \in 1..LastSelected :
            /\ LastDrop[k] \in 0..(Len(frames_raw) - 1)
            /\ k > 1 => LastDrop[k - 1] <= LastDrop[k]
            /\ LastDrop[k] = ClosedFormIndex(k) - (IF k \in LastSums THEN 1 ELSE 0)

\* ------------------------------------------------------------- thread pool

\* the threads made for input file f
ThreadsOf(f) == {i \in DOMAIN flow.threads : flow.threads[i].file = f}

\* C40, at every moment: at most processes threads are alive; no file has two
\* threads and, once the for loop is over, each file has one; compress has
\* returned only if every thread has finished
FlowSafe ==
    /\ AliveCount <= flow.processes
    /\ \A f \in 1..flow.files : Cardinality(ThreadsOf(f)) <= 1
    /\ flow.pc \in {"join", "returned"} =>
           /\ Len(flow.threads) = flow.files
           /\ \A f \in 1..flow.files : Cardinality(ThreadsOf(f)) = 1
    /\ flow.pc = "returned" =>
           \A i \in DOMAIN flow.threads : flow.threads[i].state = "finished"

\* C40: in Flow.compress the number of alive compression threads never
\* exceeds opt_comp['processes'], every input file gets exactly one thread,
\* compress returns only after all threads have finished, and with
\* processes >= 1 and conversions that terminate it returns.
C40_FlowCompress ==
    /\ []FlowSafe
    /\ (flow.pc # "idle" /\ flow.processes >= 1) ~> (flow.pc = "returned")

\* C40 witness: compress has returned after three files went through a pool
\* of two, one conversion failing and one raising
C40_Witness ==
    /\ flow.pc = "returned"
    /\ flow.processes = 2
    /\ flow.files = 3
    /\ \A i \in 1..3 : flow.threads[i] = [file |-> i, state |-> "finished"]
    /\ Len(flow.fails) = 1
    /\ flow.bar = 2

====
